---- MODULE Spec2Model ----
(***************************************************************************)
(* Ingestion and normalisation pipeline of the fantasy-football app:       *)
(* the on-disk request cache and bundle fetcher (app/ingest.py), the       *)
(* sqlite store (app/store.py) and the ingest-now action (app/main.py).    *)
(***************************************************************************)
EXTENDS Integers, Sequences, FiniteSets, TLC

VARIABLES
    cache,          \* cache directory: cache key -> file content
    snapshots,      \* snapshots table, rows in insertion (id) order
    players,        \* players table: id -> row
    teams,          \* teams table: id -> row
    rosters,        \* rosters table: <<team_id, player_id, week>> -> row
    matchups,       \* matchups table: <<week, team_id>> -> row
    transactions,   \* transactions_raw table, rows in insertion (id) order
    notifications,  \* notifications posted by the ingest-now action
    pc,             \* position of the ingest-now handler
    idx,            \* index of the resource the handler is working on
    bundle,         \* bundle built by fetch_league_bundle: sequence of payloads
    queue,          \* store writes of persist_bundle not yet executed
    raises,         \* whether persist_bundle raises once the queue is drained
    runs,           \* number of ingest-now runs started
    requests,       \* network requests issued in the current run, in order
    lookups,        \* cache lookups of the current run: <<resource, what was found>>
    prev,           \* store contents and bundle when the current run started
    calls,          \* direct calls made on the store API, in order
    ret             \* value returned by the latest direct call

vars == <<cache, snapshots, players, teams, rosters, matchups, transactions,
          notifications, pc, idx, bundle, queue, raises, runs, requests,
          lookups, prev, calls, ret>>

-----------------------------------------------------------------------------
(* Python / JSON values.  A dict keeps its insertion order: kv is a        *)
(* sequence of <<key, value>> pairs with distinct keys.                    *)

JNull == [t |-> "null"]
JStr(s) == [t |-> "str", s |-> s]
JInt(n) == [t |-> "int", n |-> n]
JList(xs) == [t |-> "list", xs |-> xs]
JDict(kv) == [t |-> "dict", kv |-> kv]

IsNull(v) == v.t = "null"
IsStr(v) == v.t = "str"
IsInt(v) == v.t = "int"
IsList(v) == v.t = "list"
IsDict(v) == v.t = "dict"

\* bool(v)
Truthy(v) ==
    CASE v.t = "null" -> FALSE
      [] v.t = "str"  -> v.s # ""
      [] v.t = "int"  -> v.n # 0
      [] v.t = "list" -> v.xs # <<>>
      [] v.t = "dict" -> v.kv # <<>>

\* a or b
POr(a, b) == IF Truthy(a) THEN a ELSE b

HasKey(d, k) == \E i \in 1..Len(d.kv) : d.kv[i][1] = k

\* d.get(k, default)
GetD(d, k, default) ==
    IF HasKey(d, k)
    THEN d.kv[CHOOSE i \in 1..Len(d.kv) : d.kv[i][1] = k][2]
    ELSE default

\* d.get(k)
Get(d, k) == GetD(d, k, JNull)

\* Python's order on the strings used as dict keys of request parameters.
KeyOrder == <<"a", "b", "format">>
KeyRank(k) == CHOOSE i \in 1..Len(KeyOrder) : KeyOrder[i] = k

\* sorted(pairs) by key (insertion sort)
RECURSIVE SortPairs(_)
InsertPair(p, sorted) ==
    LET n == Cardinality({i \in 1..Len(sorted) : KeyRank(sorted[i][1]) < KeyRank(p[1])})
    IN  SubSeq(sorted, 1, n) \o <<p>> \o SubSeq(sorted, n + 1, Len(sorted))
SortPairs(kv) ==
    IF kv = <<>> THEN <<>>
    ELSE InsertPair(kv[Len(kv)], SortPairs(SubSeq(kv, 1, Len(kv) - 1)))

\* json.dumps(v): the text as a sequence of tokens.  A Python str that holds
\* already serialised text (a raw body) is the token <<"t", tokens>>.
RECURSIVE Dumps(_)
RECURSIVE DumpsSeq(_)
RECURSIVE DumpsPairs(_)
Dumps(v) ==
    CASE v.t = "null" -> << <<"p", "null">> >>
      [] v.t = "str"  -> << <<"s", v.s>> >>
      [] v.t = "text" -> << <<"t", v.s>> >>
      [] v.t = "int"  -> << <<"n", ToString(v.n)>> >>
      [] v.t = "list" -> << <<"p", "[">> >> \o DumpsSeq(v.xs) \o << <<"p", "]">> >>
      [] v.t = "dict" -> << <<"p", "{">> >> \o DumpsPairs(v.kv) \o << <<"p", "}">> >>
DumpsSeq(xs) ==
    IF xs = <<>> THEN <<>>
    ELSE Dumps(Head(xs)) \o (IF Len(xs) > 1 THEN << <<"p", ",">> >> ELSE <<>>)
         \o DumpsSeq(Tail(xs))
DumpsPairs(kv) ==
    IF kv = <<>> THEN <<>>
    ELSE << <<"k", Head(kv)[1]>> >> \o Dumps(Head(kv)[2])
         \o (IF Len(kv) > 1 THEN << <<"p", ",">> >> ELSE <<>>)
         \o DumpsPairs(Tail(kv))

\* A Python str holding serialised text.
JText(tokens) == [t |-> "text", s |-> tokens]

\* hashlib.sha1(...).hexdigest(), taken to be collision free.
Sha1(text) == <<"sha1", text>>

\* SQL NULL and a non-null column value.
Null == <<>>
Val(x) == <<x>>

EmptyTable == [k \in {} |-> <<>>]

\* INSERT ... ON CONFLICT(key) DO UPDATE: the table with the row of key k set.
WithRow(tbl, k, row) == [x \in (DOMAIN tbl) \cup {k} |-> IF x = k THEN row ELSE tbl[x]]

-----------------------------------------------------------------------------
(* app/store.py                                                            *)

\* The digest record_snapshot computes: params or {} serialised with
\* sort_keys=True together with the endpoint and the raw body.
SnapshotDigestUnsorted(endpoint, params, raw) ==
    Sha1(Dumps(JDict(<< <<"endpoint", JStr(endpoint)>>,
                        <<"params", POr(params, JDict(<<>>))>>,
                        <<"raw", JText(raw)>> >>)))
SnapshotDigest(endpoint, params, raw) ==
    LET p == POr(params, JDict(<<>>))
    IN  Sha1(Dumps(JDict(<< <<"endpoint", JStr(endpoint)>>,
                            <<"params", JDict(SortPairs(p.kv))>>,
                            <<"raw", JText(raw)>> >>)))

\* UNIQUE(content_hash): the INSERT raises sqlite3.IntegrityError.
HasHash(rows, digest) == \E i \in 1..Len(rows) : rows[i].content_hash = digest

\* record_snapshot: the table afterwards and the returned (digest, inserted).
SnapshotRowsNoUnique(rows, endpoint, params, raw) ==
    Append(rows, [endpoint |-> endpoint,
                  params |-> Dumps(POr(params, JDict(<<>>))),
                  content_hash |-> SnapshotDigest(endpoint, params, raw),
                  raw |-> raw])
SnapshotRows(rows, endpoint, params, raw) ==
    LET digest == SnapshotDigest(endpoint, params, raw)
    IN  IF HasHash(rows, digest) THEN rows
        ELSE Append(rows, [endpoint |-> endpoint,
                           params |-> Dumps(POr(params, JDict(<<>>))),
                           content_hash |-> digest,
                           raw |-> raw])
SnapshotResult(rows, endpoint, params, raw) ==
    LET digest == SnapshotDigest(endpoint, params, raw)
    IN  <<digest, ~HasHash(rows, digest)>>

\* upsert_player: every column is overwritten with the incoming value.
PlayerRow(a) ==
    [name |-> a.name, position |-> a.position, team |-> a.team, bye_week |-> a.bye_week]
PlayersAfterKeepOld(tbl, a) ==
    IF a.player_id \in DOMAIN tbl
    THEN WithRow(tbl, a.player_id,
                 [name |-> a.name,
                  position |-> IF a.position = Null THEN tbl[a.player_id].position ELSE a.position,
                  team |-> a.team, bye_week |-> a.bye_week])
    ELSE WithRow(tbl, a.player_id, PlayerRow(a))
PlayersAfter(tbl, a) == WithRow(tbl, a.player_id, PlayerRow(a))

\* upsert_team
TeamRow(a) == [name |-> a.name, manager |-> a.manager, abbrev |-> a.abbrev]
TeamsAfter(tbl, a) == WithRow(tbl, a.team_id, TeamRow(a))

\* upsert_roster: status=excluded.status, slot=COALESCE(excluded.slot, slot)
RosterKey(a) == <<a.team_id, a.player_id, a.week>>
RostersAfterOverwrite(tbl, a) ==
    WithRow(tbl, RosterKey(a), [status |-> a.status, slot |-> a.slot])
RostersAfter(tbl, a) ==
    LET k == RosterKey(a)
    IN  IF k \in DOMAIN tbl
        THEN WithRow(tbl, k, [status |-> a.status,
                              slot |-> IF a.slot # Null THEN a.slot ELSE tbl[k].slot])
        ELSE WithRow(tbl, k, [status |-> a.status, slot |-> a.slot])

\* upsert_matchup: is_playoffs is stored as 1 or 0.
MatchupKey(a) == <<a.week, a.team_id>>
MatchupRow(a) ==
    [opponent_id |-> a.opponent_id,
     is_playoffs |-> IF a.is_playoffs THEN 1 ELSE 0,
     projected |-> a.projected, actual |-> a.actual, result |-> a.result]
MatchupsAfter(tbl, a) == WithRow(tbl, MatchupKey(a), MatchupRow(a))

\* insert_transaction_raw
TransactionsAfter(rows, a) ==
    Append(rows, [kind |-> a.kind, team_id |-> a.team_id, raw |-> a.raw])

-----------------------------------------------------------------------------
(* app/ingest.py: persist_bundle.  An exception raised while an            *)
(* expression is evaluated is the value JRaise, which every operator       *)
(* passes on.                                                              *)

MaxNum == 12

JRaise == [t |-> "raise"]
IsRaise(v) == v.t = "raise"

\* v.get(k) and v.get(k, default): AttributeError unless v is a dict
MGet(v, k) == IF IsRaise(v) THEN v ELSE IF IsDict(v) THEN Get(v, k) ELSE JRaise
MGetD(v, k, default) ==
    IF IsRaise(v) THEN v ELSE IF IsDict(v) THEN GetD(v, k, default) ELSE JRaise

\* a or b
MOr(a, b) == IF IsRaise(a) THEN a ELSE IF Truthy(a) THEN a ELSE b

\* v[0]
Index0(v) ==
    IF IsRaise(v) THEN v
    ELSE IF IsList(v) /\ v.xs # <<>> THEN v.xs[1] ELSE JRaise

\* str.isdigit() on the numerals the model uses
IsDigitStr(s) == \E n \in 0..MaxNum : ToString(n) = s
DigitVal(s) == CHOOSE n \in 0..MaxNum : ToString(n) = s

\* str(v)
MStr(v) ==
    CASE v.t = "raise" -> v
      [] v.t = "str"   -> v
      [] v.t = "int"   -> JStr(ToString(v.n))
      [] v.t = "null"  -> JStr("None")
      [] v.t = "list"  -> JStr("[...]")
      [] v.t = "dict"  -> JStr("{...}")

\* int(v): ValueError / TypeError unless v is an int or a numeral
MInt(v) ==
    CASE v.t = "int" -> v
      [] v.t = "str" /\ IsDigitStr(v.s) -> JInt(DigitVal(v.s))
      [] OTHER -> JRaise

\* a + " " + b on the strings the model uses, and str.strip()
NameJoin == << <<"", "", " ">>, <<"Pat", "Lee", "Pat Lee">>, <<"Pat", "", "Pat ">> >>
Joined(a, b) ==
    IF ~(IsStr(a) /\ IsStr(b)) THEN JRaise
    ELSE IF \E i \in 1..Len(NameJoin) : NameJoin[i][1] = a.s /\ NameJoin[i][2] = b.s
         THEN JStr(NameJoin[CHOOSE i \in 1..Len(NameJoin) :
                            NameJoin[i][1] = a.s /\ NameJoin[i][2] = b.s][3])
         ELSE JStr("? ?")
Strip(s) == CASE s = " " -> "" [] s = "Pat " -> "Pat" [] OTHER -> s

\* A value bound to a TEXT column: sqlite refuses a list or a dict.
Bindable(v) == v.t \in {"null", "str", "int"}
Col(v) == IF v.t = "null" THEN Null ELSE Val(MStr(v).s)
\* str(v) if v else None
StrOrNone(v) == IF Truthy(v) THEN Val(MStr(v).s) ELSE Null

\* dict.update
SetKeyKeep(kv, k, v) ==
    IF \E i \in 1..Len(kv) : kv[i][1] = k THEN kv ELSE Append(kv, <<k, v>>)
SetKey(kv, k, v) ==
    IF \E i \in 1..Len(kv) : kv[i][1] = k
    THEN [i \in 1..Len(kv) |-> IF kv[i][1] = k THEN <<k, v>> ELSE kv[i]]
    ELSE Append(kv, <<k, v>>)
RECURSIVE UpdateKv(_, _)
UpdateKv(kv, e) ==
    IF e = <<>> THEN kv ELSE UpdateKv(SetKey(kv, Head(e)[1], Head(e)[2]), Tail(e))

RECURSIVE flatten_yahoo_list(_)
RECURSIVE FlattenItems(_, _)
flatten_yahoo_list(obj) ==
    IF ~IsList(obj) THEN (IF IsDict(obj) THEN obj ELSE JDict(<<>>))
    ELSE JDict(FlattenItems(<<>>, obj.xs))
FlattenItems(result, xs) ==
    IF xs = <<>> THEN result
    ELSE LET item == Head(xs)
             merged ==
                 IF IsDict(item) THEN UpdateKv(result, item.kv)
                 ELSE IF IsList(item)
                      THEN LET nested == flatten_yahoo_list(item)
                           IN  IF Truthy(nested) THEN UpdateKv(result, nested.kv)
                               ELSE result
                      ELSE result
         IN  FlattenItems(merged, Tail(xs))

\* The loop of _extract_items over the path: ret when it returns [] early.
RECURSIVE Navigate(_, _)
Navigate(current, path) ==
    IF path = <<>> THEN [ret |-> FALSE, v |-> current]
    ELSE LET key == Head(path) IN
         IF IsDict(current)
         THEN Navigate(GetD(current, key, JDict(<<>>)), Tail(path))
         ELSE IF IsList(current)
         THEN IF key = "league" /\ Len(current.xs) > 0
              THEN Navigate(current, Tail(path))
              ELSE IF Len(current.xs) > 1 /\ IsDict(current.xs[2])
                      /\ HasKey(current.xs[2], key)
              THEN Navigate(GetD(current.xs[2], key, JDict(<<>>)), Tail(path))
              ELSE IF Len(current.xs) = 1
              THEN Navigate(current.xs[1], Tail(path))
              ELSE [ret |-> TRUE, v |-> JNull]
         ELSE [ret |-> TRUE, v |-> JNull]

\* The items of a dict in iteration order whose key is a numeral and whose
\* value is a dict.
DigitItems(kv) ==
    LET sel == SelectSeq(kv, LAMBDA p : IsDigitStr(p[1]) /\ IsDict(p[2]))
    IN  [i \in 1..Len(sel) |-> sel[i][2]]

extract_items(data, path) ==
    LET n == Navigate(data, path)
    IN  IF n.ret THEN <<>>
        ELSE IF IsList(n.v) THEN n.v.xs
        ELSE IF IsDict(n.v) THEN DigitItems(n.v.kv)
        ELSE <<>>

\* What the processing of one record or section does: the store calls it
\* makes, in order, and whether it then raises.
Skip == [w |-> <<>>, raised |-> FALSE]
Raise == [w |-> <<>>, raised |-> TRUE]
Writes(w) == [w |-> w, raised |-> FALSE]

\* Sequential composition: the calls up to and including those of the first
\* part that raises.
RECURSIVE Combine(_)
Combine(rs) ==
    IF rs = <<>> THEN Skip
    ELSE IF Head(rs).raised THEN Head(rs)
    ELSE LET rest == Combine(Tail(rs))
         IN  [w |-> Head(rs).w \o rest.w, raised |-> rest.raised]

ForEach(items, Body(_)) == Combine([i \in 1..Len(items) |-> Body(items[i])])

\* `if tid`, `if pid`, `if team_id`, `if a_id`: the key was resolved from one
\* of its alternate fields.
ResolvedAlways(id) == TRUE
Resolved(id) == Truthy(id)

TeamCall(tid, name, manager, abbrev) ==
    IF ~(Bindable(manager) /\ Bindable(abbrev)) THEN Raise
    ELSE Writes(<< [op |-> "upsert_team",
                    args |-> [team_id |-> tid.s, name |-> MStr(name).s,
                              manager |-> Col(manager), abbrev |-> Col(abbrev)]] >>)

\* Teams, plain array: one element
TeamFromPlain(t) ==
    IF ~IsDict(t) THEN Skip
    ELSE LET tid == MStr(MOr(MOr(MOr(Get(t, "team_id"), Get(t, "id")),
                                 Get(t, "team_key")), JStr("")))
             teamobj == MOr(Get(t, "team"), JDict(<<>>))
             name0 == MOr(MOr(Get(t, "name"), MGet(teamobj, "name")), tid)
             name == IF IsDict(name0)
                     THEN MOr(MOr(Get(name0, "full"), Get(name0, "display")), tid)
                     ELSE name0
             manager == IF IsList(Get(t, "managers"))
                        THEN MGet(Index0(MOr(Get(t, "managers"),
                                             JList(<<JDict(<<>>)>>))), "nickname")
                        ELSE JNull
             abbrev == MOr(MGet(teamobj, "abbr"), Get(t, "abbrev"))
         IN  IF IsRaise(name) \/ IsRaise(manager) \/ IsRaise(abbrev) THEN Raise
             ELSE IF Resolved(tid) /\ Truthy(name)
                  THEN TeamCall(tid, name, manager, abbrev)
                  ELSE Skip

\* Teams, Yahoo structure: one item of fantasy_content.league.teams
TeamFromYahoo(team_wrap) ==
    LET team_list == IF IsDict(team_wrap) THEN Get(team_wrap, "team") ELSE JNull
    IN  IF ~IsList(team_list) THEN Skip
        ELSE LET team == flatten_yahoo_list(team_list)
                 tid == MStr(MOr(MOr(Get(team, "team_id"), Get(team, "team_key")),
                                 JStr("")))
                 name == GetD(team, "name", JStr(""))
                 managers == Get(team, "managers")
                 manager ==
                     IF IsList(managers) /\ Truthy(managers)
                     THEN LET mgr_wrap == managers.xs[1]
                          IN  IF IsDict(mgr_wrap)
                              THEN LET mgr == GetD(mgr_wrap, "manager", JDict(<<>>))
                                   IN  MOr(MGet(mgr, "nickname"), MGet(mgr, "guid"))
                              ELSE JNull
                     ELSE JNull
             IN  IF IsRaise(manager) THEN Raise
                 ELSE IF Resolved(tid) /\ Truthy(name)
                      THEN TeamCall(tid, name, manager, JNull)
                      ELSE Skip

TeamsSection(teams_raw) ==
    IF IsList(teams_raw) THEN ForEach(teams_raw.xs, TeamFromPlain)
    ELSE IF IsDict(teams_raw)
         THEN ForEach(extract_items(teams_raw, <<"fantasy_content", "league", "teams">>),
                      TeamFromYahoo)
         ELSE Skip

\* The upsert_player call with its argument conversions.
PlayerCall(pid, name, pos, team, bye) ==
    LET week == IF Truthy(bye) THEN MInt(bye) ELSE JNull
    IN  IF IsRaise(week) THEN Raise
        ELSE Writes(<< [op |-> "upsert_player",
                        args |-> [player_id |-> pid.s, name |-> name,
                                  position |-> StrOrNone(pos),
                                  team |-> StrOrNone(team),
                                  bye_week |-> IF IsNull(week) THEN Null
                                               ELSE Val(week.n)]] >>)

\* Players, plain array: one element
PlayerFromPlain(p) ==
    IF ~IsDict(p) THEN Skip
    ELSE LET pid == MStr(MOr(MOr(MOr(Get(p, "player_id"), Get(p, "id")),
                                 Get(p, "player_key")), JStr("")))
             playerobj == MOr(Get(p, "player"), JDict(<<>>))
             name0 == MOr(MOr(Get(p, "name"), MGet(playerobj, "name")), pid)
             name == IF IsDict(name0)
                     THEN MOr(MOr(Get(name0, "full"), Get(name0, "display")), pid)
                     ELSE name0
             pos == MOr(MOr(Get(p, "position"), Get(p, "display_position")),
                        MGet(playerobj, "display_position"))
             team == MOr(Get(p, "editorial_team_abbr"),
                         MGet(playerobj, "editorial_team_abbr"))
             bye == MOr(Get(p, "bye_week"),
                        MGet(MOr(Get(p, "bye_weeks"), JDict(<<>>)), "week"))
         IN  IF IsRaise(name) \/ IsRaise(pos) \/ IsRaise(team) \/ IsRaise(bye)
             THEN Raise
             ELSE IF Resolved(pid) /\ Truthy(name)
                  THEN PlayerCall(pid, MStr(name).s, pos, team, bye)
                  ELSE Skip

\* The player fields read from a flattened Yahoo player, and the upsert.
PlayerFromFlat(player) ==
    LET pid == MStr(MOr(MOr(Get(player, "player_id"), Get(player, "player_key")),
                        JStr("")))
        name0 == GetD(player, "name", JDict(<<>>))
        name == IF IsDict(name0)
                THEN MOr(Get(name0, "full"),
                         Joined(GetD(name0, "ascii_first", JStr("")),
                                GetD(name0, "ascii_last", JStr(""))))
                ELSE name0
        pos == MOr(Get(player, "display_position"), Get(player, "primary_position"))
        team == Get(player, "editorial_team_abbr")
        bye == IF IsDict(Get(player, "bye_weeks"))
               THEN Get(Get(player, "bye_weeks"), "week")
               ELSE JNull
    IN  IF IsRaise(name) THEN Raise
        ELSE IF Resolved(pid) /\ Truthy(name)
             THEN PlayerCall(pid, Strip(MStr(name).s), pos, team, bye)
             ELSE Skip

PlayerFromYahoo(player_wrap) ==
    LET player_list == IF IsDict(player_wrap) THEN Get(player_wrap, "player") ELSE JNull
    IN  IF ~IsList(player_list) THEN Skip
        ELSE PlayerFromFlat(flatten_yahoo_list(player_list))

PlayersSection(players_raw) ==
    IF IsList(players_raw) THEN ForEach(players_raw.xs, PlayerFromPlain)
    ELSE IF IsDict(players_raw)
         THEN ForEach(extract_items(players_raw,
                                    <<"fantasy_content", "league", "players">>),
                      PlayerFromYahoo)
         ELSE Skip

RosterCall(team_id, pid, week, status, slot) ==
    IF ~(Bindable(status) /\ Bindable(slot)) THEN Raise
    ELSE Writes(<< [op |-> "upsert_roster",
                    args |-> [team_id |-> team_id.s, player_id |-> pid.s,
                              week |-> week, status |-> Col(status),
                              slot |-> Col(slot)]] >>)

\* Rosters, plain array: one entry of one element's entries
EntryFromPlain(entry, team_id, week) ==
    IF ~IsDict(entry) THEN Skip
    ELSE LET pid == MStr(MOr(MOr(MOr(Get(entry, "player_id"), Get(entry, "id")),
                                 Get(entry, "player_key")), JStr("")))
             slot == MOr(Get(entry, "slot"), Get(entry, "position"))
             status == Get(entry, "status")
         IN  IF Resolved(team_id) /\ Resolved(pid) /\ week # 0
             THEN RosterCall(team_id, pid, week, status, slot)
             ELSE Skip

\* Rosters, plain array: one element
RosterFromPlain(r) ==
    IF ~IsDict(r) THEN Skip
    ELSE LET team_id == MStr(MOr(MOr(MOr(Get(r, "team_id"), Get(r, "teamKey")),
                                     Get(r, "team_key")), JStr("")))
             week_val == Get(r, "week")
             week == IF (IsInt(week_val) \/ IsStr(week_val))
                        /\ IsDigitStr(MStr(week_val).s)
                     THEN MInt(week_val).n ELSE 0
             entries == IF IsList(Get(r, "entries")) THEN Get(r, "entries").xs ELSE <<>>
         IN  Combine([i \in 1..Len(entries) |-> EntryFromPlain(entries[i], team_id, week)])

\* The week of a Yahoo roster or scoreboard: a numeral or an int, else 0.
YahooWeek(week) ==
    IF IsStr(week) /\ IsDigitStr(week.s) THEN DigitVal(week.s)
    ELSE IF ~IsInt(week) THEN 0 ELSE week.n

\* Rosters, Yahoo structure: one player of one team's roster
RosterPlayerFromYahoo(player_wrap, team_id, week) ==
    LET player_list == IF IsDict(player_wrap) THEN Get(player_wrap, "player") ELSE JNull
    IN  IF ~IsList(player_list) THEN Skip
        ELSE LET player == flatten_yahoo_list(player_list)
                 pid == MStr(MOr(MOr(Get(player, "player_id"), Get(player, "player_key")),
                                 JStr("")))
                 selected_list == Get(player_wrap, "selected_position")
                 selected == IF IsList(selected_list) THEN flatten_yahoo_list(selected_list)
                             ELSE IF IsDict(selected_list) THEN selected_list
                             ELSE JDict(<<>>)
                 slot == Get(selected, "position")
                 status == Get(player, "status")
             IN  Combine(<< PlayerFromFlat(player),
                            IF Resolved(team_id) /\ Resolved(pid) /\ week # 0
                            THEN RosterCall(team_id, pid, week, status, slot)
                            ELSE Skip >>)

\* Rosters, Yahoo structure: one item of fantasy_content.league.teams
RosterFromYahoo(team_wrap) ==
    LET team_list == IF IsDict(team_wrap) THEN Get(team_wrap, "team") ELSE JNull
    IN  IF ~IsList(team_list) THEN Skip
        ELSE LET team == flatten_yahoo_list(team_list)
                 team_id == MStr(MOr(MOr(Get(team, "team_id"), Get(team, "team_key")),
                                     JStr("")))
                 roster == GetD(team, "roster", JDict(<<>>))
             IN  IF ~IsDict(roster) THEN Skip
                 ELSE LET week == YahooWeek(Get(roster, "week"))
                          roster_wrap == GetD(roster, "0", JDict(<<>>))
                          players_data == MGetD(roster_wrap, "players", JDict(<<>>))
                      IN  IF IsRaise(players_data) THEN Raise
                          ELSE LET items == extract_items(players_data, <<>>)
                               IN  Combine([i \in 1..Len(items) |->
                                       RosterPlayerFromYahoo(items[i], team_id, week)])

RostersSection(rosters_raw) ==
    IF IsList(rosters_raw) THEN ForEach(rosters_raw.xs, RosterFromPlain)
    ELSE IF IsDict(rosters_raw)
         THEN ForEach(extract_items(rosters_raw, <<"fantasy_content", "league", "teams">>),
                      RosterFromYahoo)
         ELSE Skip

MatchupArgsOf(week, team_id, opponent_id) ==
    [week |-> week, team_id |-> team_id, opponent_id |-> opponent_id,
     is_playoffs |-> FALSE, projected |-> Null, actual |-> Null, result |-> Null]

\* The two upsert_matchup calls made for one matchup, in the code's order.
MatchupCallsFirstOnly(week, a_id, b_id) ==
    Writes(<< [op |-> "upsert_matchup", args |-> MatchupArgsOf(week, a_id, b_id)] >>)
MatchupCalls(week, a_id, b_id) ==
    Writes(<< [op |-> "upsert_matchup", args |-> MatchupArgsOf(week, a_id, b_id)],
              [op |-> "upsert_matchup", args |-> MatchupArgsOf(week, b_id, a_id)] >>)

\* Matchups, plain array: one element
MatchupFromPlain(m) ==
    IF ~IsDict(m) THEN Skip
    ELSE LET week == MInt(MOr(Get(m, "week"), JInt(0)))
             a == MOr(MOr(Get(m, "team_a"), Get(m, "teamA")), JDict(<<>>))
             b == MOr(MOr(Get(m, "team_b"), Get(m, "teamB")), JDict(<<>>))
             a_id == IF IsDict(a)
                     THEN MStr(MOr(MOr(Get(a, "team_id"), Get(a, "id")), JStr("")))
                     ELSE JStr("")
             b_id == IF IsDict(b)
                     THEN MStr(MOr(MOr(Get(b, "team_id"), Get(b, "id")), JStr("")))
                     ELSE JStr("")
         IN  IF IsRaise(week) THEN Raise
             ELSE IF week.n # 0 /\ Resolved(a_id) /\ Resolved(b_id)
                  THEN MatchupCalls(week.n, a_id.s, b_id.s)
                  ELSE Skip

\* Matchups, Yahoo scoreboard: one item of scoreboard["0"].matchups
MatchupFromYahoo(matchup_wrap, week) ==
    LET matchup_data == IF IsDict(matchup_wrap)
                        THEN GetD(matchup_wrap, "matchup", JDict(<<>>))
                        ELSE JDict(<<>>)
    IN  IF ~IsDict(matchup_data) THEN Skip
        ELSE LET teams_wrap == GetD(matchup_data, "0", JDict(<<>>))
                 teams_raw == MGetD(teams_wrap, "teams", JDict(<<>>))
             IN  IF IsRaise(teams_raw) THEN Raise
                 ELSE LET team_list == extract_items(teams_raw, <<>>)
                      IN  IF Len(team_list) < 2 THEN Skip
                          ELSE LET team_a_list == IF IsDict(team_list[1])
                                                  THEN Get(team_list[1], "team") ELSE JNull
                                   team_b_list == IF IsDict(team_list[2])
                                                  THEN Get(team_list[2], "team") ELSE JNull
                               IN  IF ~(IsList(team_a_list) /\ IsList(team_b_list)) THEN Skip
                                   ELSE LET team_a == flatten_yahoo_list(team_a_list)
                                            team_b == flatten_yahoo_list(team_b_list)
                                            a_id == MStr(MOr(MOr(Get(team_a, "team_id"),
                                                                 Get(team_a, "team_key")),
                                                             JStr("")))
                                            b_id == MStr(MOr(MOr(Get(team_b, "team_id"),
                                                                 Get(team_b, "team_key")),
                                                             JStr("")))
                                        IN  IF week # 0 /\ Resolved(a_id) /\ Resolved(b_id)
                                            THEN MatchupCalls(week, a_id.s, b_id.s)
                                            ELSE Skip

MatchupsFromScoreboard(matchups_raw) ==
    LET fc == GetD(matchups_raw, "fantasy_content", JDict(<<>>))
        league == MGetD(fc, "league", JList(<<>>))
    IN  IF IsRaise(league) THEN Raise
        ELSE IF ~IsList(league) \/ Len(league.xs) < 2 THEN Skip
        ELSE LET scoreboard == MGetD(league.xs[2], "scoreboard", JDict(<<>>))
                 week_raw == MGet(scoreboard, "week")
                 sb_wrap == MGetD(scoreboard, "0", JDict(<<>>))
                 matchups_dict == MGetD(sb_wrap, "matchups", JDict(<<>>))
             IN  IF IsRaise(matchups_dict) THEN Raise
                 ELSE LET items == extract_items(matchups_dict, <<>>)
                          week == YahooWeek(week_raw)
                      IN  Combine([i \in 1..Len(items) |->
                                      MatchupFromYahoo(items[i], week)])

MatchupsSection(matchups_raw) ==
    IF IsList(matchups_raw) THEN ForEach(matchups_raw.xs, MatchupFromPlain)
    ELSE IF IsDict(matchups_raw) THEN MatchupsFromScoreboard(matchups_raw)
    ELSE Skip

\* kind or None
TxCol(s) == IF s = "" THEN Null ELSE Val(s)

\* Transactions, plain array: one element
TxFromPlain(tx) ==
    IF ~IsDict(tx) THEN Skip
    ELSE LET kind == MStr(MOr(MOr(Get(tx, "type"), Get(tx, "kind")), JStr("")))
             team_id == MStr(MOr(MOr(Get(tx, "team_id"), Get(tx, "teamKey")), JStr("")))
         IN  Writes(<< [op |-> "insert_transaction_raw",
                        args |-> [kind |-> TxCol(kind.s), team_id |-> TxCol(team_id.s),
                                  raw |-> Dumps(tx)]] >>)

\* Transactions, Yahoo structure: one item of fantasy_content.league.transactions
TxFromYahoo(tx_wrap) ==
    LET tx_list == IF IsDict(tx_wrap) THEN Get(tx_wrap, "transaction") ELSE JNull
    IN  IF ~IsList(tx_list) THEN Skip
        ELSE LET tx == flatten_yahoo_list(tx_list)
                 kind == MStr(MOr(Get(tx, "type"), JStr("")))
             IN  Writes(<< [op |-> "insert_transaction_raw",
                            args |-> [kind |-> TxCol(kind.s), team_id |-> Null,
                                      raw |-> Dumps(tx)]] >>)

TransactionsSection(txs) ==
    IF IsList(txs) THEN ForEach(txs.xs, TxFromPlain)
    ELSE IF IsDict(txs)
         THEN ForEach(extract_items(txs, <<"fantasy_content", "league", "transactions">>),
                      TxFromYahoo)
         ELSE Skip

\* The resources of a bundle, in the order fetch_league_bundle inserts them.
ResourceNames ==
    <<"league", "teams", "rosters", "players", "matchups", "standings", "transactions">>
ResourceIndex(name) == CHOOSE i \in 1..Len(ResourceNames) : ResourceNames[i] = name
\* bundle.get(name)
BundleGet(b, name) == b[ResourceIndex(name)]

\* persist_bundle: the store calls it makes, in order, and whether it raises.
persist_bundle(b) ==
    Combine(<< TeamsSection(BundleGet(b, "teams")),
               PlayersSection(BundleGet(b, "players")),
               RostersSection(BundleGet(b, "rosters")),
               MatchupsSection(BundleGet(b, "matchups")),
               TransactionsSection(BundleGet(b, "transactions")) >>)

-----------------------------------------------------------------------------
(* Initial state: the migrated, empty database and an empty cache          *)
(* directory; no handler is running.                                       *)

NoPrev == [ok |-> FALSE]

InitStore ==
    /\ cache = EmptyTable
    /\ snapshots = <<>>
    /\ players = EmptyTable
    /\ teams = EmptyTable
    /\ rosters = EmptyTable
    /\ matchups = EmptyTable
    /\ transactions = <<>>
    /\ notifications = <<>>
    /\ idx = 0
    /\ bundle = <<>>
    /\ queue = <<>>
    /\ raises = FALSE
    /\ runs = 0
    /\ requests = <<>>
    /\ lookups = <<>>
    /\ prev = NoPrev
    /\ calls = <<>>
    /\ ret = <<>>

-----------------------------------------------------------------------------
(* Direct calls on the store API, as the tests and persist_bundle make     *)
(* them.  Each call opens its own connection and commits.                  *)

MaxSnapCalls == 3
MaxRosterCalls == 4
MaxStoreCalls == 4

SnapEndpoints == {"league/123", "league/123/teams"}
SnapParams ==
    << JNull,
       JDict(<<>>),
       JDict(<< <<"a", JInt(1)>>, <<"b", JInt(2)>> >>),
       JDict(<< <<"b", JInt(2)>>, <<"a", JInt(1)>> >>),
       JDict(<< <<"a", JInt(1)>> >>) >>
SnapRaws ==
    { Dumps(JDict(<< <<"ok", JInt(1)>> >>)), Dumps(JList(<<>>)) }

StoreUnchangedBut(v) ==
    /\ UNCHANGED <<cache, transactions, notifications, pc, idx, bundle, queue,
                   raises, runs, requests, lookups, prev>>
    /\ v # "snapshots" => UNCHANGED snapshots
    /\ v # "players"   => UNCHANGED players
    /\ v # "teams"     => UNCHANGED teams
    /\ v # "rosters"   => UNCHANGED rosters
    /\ v # "matchups"  => UNCHANGED matchups

record_snapshot ==
    /\ pc = "api"
    /\ Len(calls) < MaxSnapCalls
    /\ \E endpoint \in SnapEndpoints, i \in 1..Len(SnapParams), raw \in SnapRaws :
          /\ snapshots' = SnapshotRows(snapshots, endpoint, SnapParams[i], raw)
          /\ ret' = SnapshotResult(snapshots, endpoint, SnapParams[i], raw)
          /\ calls' = Append(calls, [op |-> "record_snapshot", endpoint |-> endpoint,
                                     params |-> SnapParams[i], raw |-> raw,
                                     ret |-> SnapshotResult(snapshots, endpoint,
                                                            SnapParams[i], raw)])
    /\ StoreUnchangedBut("snapshots")

RosterTeams == {"t1", "t2"}
RosterSlots == {Null, Val("RB"), Val("WR")}
RosterStatuses == {Null, Val("START")}

upsert_roster ==
    /\ pc = "api"
    /\ Len(calls) < MaxRosterCalls
    /\ \E team_id \in RosterTeams, slot \in RosterSlots, status \in RosterStatuses :
          LET a == [team_id |-> team_id, player_id |-> "p1", week |-> 1,
                    status |-> status, slot |-> slot]
          IN  /\ rosters' = RostersAfter(rosters, a)
              /\ calls' = Append(calls, [op |-> "upsert_roster", args |-> a])
    /\ UNCHANGED ret
    /\ StoreUnchangedBut("rosters")

PlayerArgs ==
    << [player_id |-> "p1", name |-> "A Player", position |-> Val("RB"),
        team |-> Val("NYJ"), bye_week |-> Val(7)],
       [player_id |-> "p1", name |-> "A. Player", position |-> Null,
        team |-> Null, bye_week |-> Null],
       [player_id |-> "p2", name |-> "B Player", position |-> Val("WR"),
        team |-> Null, bye_week |-> Val(9)] >>
TeamArgs ==
    << [team_id |-> "t1", name |-> "Team One", manager |-> Val("Alice"),
        abbrev |-> Val("ONE")],
       [team_id |-> "t1", name |-> "Team Uno", manager |-> Null, abbrev |-> Null],
       [team_id |-> "t2", name |-> "Team Two", manager |-> Val("Bob"),
        abbrev |-> Null] >>
MatchupArgs ==
    << [week |-> 1, team_id |-> "t1", opponent_id |-> "t2", is_playoffs |-> FALSE,
        projected |-> Val(100), actual |-> Null, result |-> Null],
       [week |-> 1, team_id |-> "t1", opponent_id |-> "t3", is_playoffs |-> TRUE,
        projected |-> Null, actual |-> Val(90), result |-> Val("W")],
       [week |-> 1, team_id |-> "t2", opponent_id |-> "t1", is_playoffs |-> FALSE,
        projected |-> Null, actual |-> Null, result |-> Null],
       [week |-> 2, team_id |-> "t1", opponent_id |-> "t2", is_playoffs |-> FALSE,
        projected |-> Null, actual |-> Null, result |-> Null] >>

upsert_player ==
    /\ pc = "api"
    /\ Len(calls) < MaxStoreCalls
    /\ \E i \in 1..Len(PlayerArgs) :
          /\ players' = PlayersAfter(players, PlayerArgs[i])
          /\ calls' = Append(calls, [op |-> "upsert_player", args |-> PlayerArgs[i]])
    /\ UNCHANGED ret
    /\ StoreUnchangedBut("players")

upsert_team ==
    /\ pc = "api"
    /\ Len(calls) < MaxStoreCalls
    /\ \E i \in 1..Len(TeamArgs) :
          /\ teams' = TeamsAfter(teams, TeamArgs[i])
          /\ calls' = Append(calls, [op |-> "upsert_team", args |-> TeamArgs[i]])
    /\ UNCHANGED ret
    /\ StoreUnchangedBut("teams")

upsert_matchup ==
    /\ pc = "api"
    /\ Len(calls) < MaxStoreCalls
    /\ \E i \in 1..Len(MatchupArgs) :
          /\ matchups' = MatchupsAfter(matchups, MatchupArgs[i])
          /\ calls' = Append(calls, [op |-> "upsert_matchup", args |-> MatchupArgs[i]])
    /\ UNCHANGED ret
    /\ StoreUnchangedBut("matchups")

InitApi == InitStore /\ pc = "api"

NextSnapshot == record_snapshot
SpecSnapshot == InitApi /\ [][NextSnapshot]_vars

NextRoster == upsert_roster
SpecRoster == InitApi /\ [][NextRoster]_vars

NextUpsert == upsert_player \/ upsert_team \/ upsert_matchup
SpecUpsert == InitApi /\ [][NextUpsert]_vars

-----------------------------------------------------------------------------
(* Payloads the platform returns for the seven resources of a league.      *)

League ==
    JDict(<< <<"fantasy_content", JDict(<< <<"league",
      JList(<< JDict(<< <<"league_key", JStr("nfl.l.123")>>, <<"name",
      JStr("League")>> >>) >>)>> >>)>> >>)
Standings ==
    JDict(<< <<"fantasy_content", JDict(<< <<"league",
      JList(<< JDict(<< <<"league_key", JStr("nfl.l.123")>> >>),
      JDict(<< <<"standings", JDict(<< <<"count",
      JInt(0)>> >>)>> >>) >>)>> >>)>> >>)
TeamsPlain ==
    JList(<< JDict(<< <<"team_id", JStr("t1")>>, <<"name", JStr("Alpha")>>,
      <<"managers", JList(<< JDict(<< <<"nickname",
      JStr("Bob")>> >>) >>)>> >>), JDict(<< <<"name", JStr("NoKey")>> >>) >>)
TeamsYahoo ==
    JDict(<< <<"fantasy_content", JDict(<< <<"league",
      JList(<< JDict(<< <<"league_key", JStr("nfl.l.123")>> >>),
      JDict(<< <<"teams", JDict(<< <<"0", JDict(<< <<"team",
      JList(<< JList(<< JDict(<< <<"team_key", JStr("t1")>> >>),
      JDict(<< <<"name", JStr("Alpha")>> >>), JDict(<< <<"managers",
      JList(<< JDict(<< <<"manager", JDict(<< <<"nickname",
      JStr("Bob")>> >>)>> >>) >>)>> >>) >>) >>)>> >>)>>, <<"count",
      JInt(1)>> >>)>> >>) >>)>> >>)>> >>)
PlayersPlain ==
    JList(<< JDict(<< <<"player_id", JStr("p1")>>, <<"name",
      JDict(<< <<"full", JStr("Pat Lee")>> >>)>>, <<"position", JStr("RB")>>,
      <<"editorial_team_abbr", JStr("NYJ")>>, <<"bye_week",
      JStr("7")>> >>) >>)
RostersSlot ==
    JList(<< JDict(<< <<"team_id", JStr("t1")>>, <<"week", JInt(1)>>,
      <<"entries", JList(<< JDict(<< <<"player_id", JStr("p1")>>, <<"slot",
      JStr("RB")>>, <<"status", JStr("START")>> >>) >>)>> >>) >>)
RostersNoslot ==
    JList(<< JDict(<< <<"team_id", JStr("t1")>>, <<"week", JStr("1")>>,
      <<"entries", JList(<< JDict(<< <<"player_id", JStr("p1")>>, <<"status",
      JStr("BN")>> >>) >>)>> >>) >>)
MatchupsPlain ==
    JList(<< JDict(<< <<"week", JInt(1)>>, <<"team_a", JDict(<< <<"team_id",
      JStr("t1")>> >>)>>, <<"team_b", JDict(<< <<"team_id",
      JStr("t2")>> >>)>> >>) >>)
MatchupsYahoo ==
    JDict(<< <<"fantasy_content", JDict(<< <<"league",
      JList(<< JDict(<< <<"league_key", JStr("nfl.l.123")>> >>),
      JDict(<< <<"scoreboard", JDict(<< <<"week", JStr("1")>>, <<"0",
      JDict(<< <<"matchups", JDict(<< <<"0", JDict(<< <<"matchup",
      JDict(<< <<"0", JDict(<< <<"teams", JDict(<< <<"0", JDict(<< <<"team",
      JList(<< JList(<< JDict(<< <<"team_key",
      JStr("t1")>> >>) >>) >>)>> >>)>>, <<"1", JDict(<< <<"team",
      JList(<< JList(<< JDict(<< <<"team_key",
      JStr("t2")>> >>) >>) >>)>> >>)>>, <<"count",
      JInt(2)>> >>)>> >>)>> >>)>> >>)>>, <<"count",
      JInt(1)>> >>)>> >>)>> >>)>> >>) >>)>> >>)>> >>)
MatchupsTwice ==
    JList(<< JDict(<< <<"week", JInt(1)>>, <<"team_a", JDict(<< <<"team_id",
      JStr("t1")>> >>)>>, <<"team_b", JDict(<< <<"team_id",
      JStr("t2")>> >>)>> >>), JDict(<< <<"week", JInt(1)>>, <<"team_a",
      JDict(<< <<"team_id", JStr("t3")>> >>)>>, <<"team_b",
      JDict(<< <<"team_id", JStr("t1")>> >>)>> >>) >>)
TxPlain ==
    JList(<< JDict(<< <<"type", JStr("add")>>, <<"team_id", JStr("t1")>>,
      <<"player", JStr("p1")>> >>) >>)

RostersYahooNoWeek ==
    JDict(<< <<"fantasy_content", JDict(<< <<"league",
      JList(<< JDict(<< <<"league_key", JStr("nfl.l.123")>> >>),
      JDict(<< <<"teams", JDict(<< <<"0", JDict(<< <<"team",
      JList(<< JList(<< JDict(<< <<"team_key", JStr("t1")>> >>),
      JDict(<< <<"roster", JDict(<< <<"0", JDict(<< <<"players",
      JDict(<< <<"0", JDict(<< <<"player",
      JList(<< JList(<< JDict(<< <<"player_key", JStr("p3")>> >>),
      JDict(<< <<"name", JDict(<< <<"full",
      JStr("Pat Lee")>> >>)>> >>) >>) >>)>>, <<"selected_position",
      JList(<< JDict(<< <<"position", JStr("QB")>> >>) >>)>> >>)>>, <<"count",
      JInt(1)>> >>)>> >>)>> >>)>> >>) >>) >>)>> >>)>>, <<"count",
      JInt(1)>> >>)>> >>) >>)>> >>)>> >>)
TxYahoo ==
    JDict(<< <<"fantasy_content", JDict(<< <<"league",
      JList(<< JDict(<< <<"league_key", JStr("nfl.l.123")>> >>),
      JDict(<< <<"transactions", JDict(<< <<"0", JDict(<< <<"transaction",
      JList(<< JDict(<< <<"transaction_key", JStr("k1")>> >>),
      JDict(<< <<"type", JStr("add")>> >>) >>)>> >>)>>, <<"count",
      JInt(1)>> >>)>> >>) >>)>> >>)>> >>)
LeagueRenamed ==
    JDict(<< <<"fantasy_content", JDict(<< <<"league",
      JList(<< JDict(<< <<"league_key", JStr("nfl.l.123")>>, <<"name",
      JStr("Renamed")>> >>) >>)>> >>)>> >>)
PlayersYahoo ==
    JDict(<< <<"fantasy_content", JDict(<< <<"league",
      JList(<< JDict(<< <<"league_key", JStr("nfl.l.123")>> >>),
      JDict(<< <<"players", JDict(<< <<"count",
      JInt(0)>> >>)>> >>) >>)>> >>)>> >>)

\* Every payload of the model; json.loads recognises the texts of these.
Universe ==
    << League, TeamsPlain, TeamsYahoo, RostersSlot, RostersNoslot, PlayersPlain,
       MatchupsPlain, MatchupsYahoo, MatchupsTwice, Standings, TxPlain,
       RostersYahooNoWeek, TxYahoo, LeagueRenamed, PlayersYahoo >>

\* What the platform may answer for each resource, as indices of Universe.
Responses == << {1}, {3}, {4, 5}, {6}, {7, 8, 9}, {10}, {11} >>

\* json.loads(text): the value whose serialisation the text is; JRaise
\* (JSONDecodeError) when the text is no complete serialisation.
UniverseTexts == [i \in 1..Len(Universe) |-> Dumps(Universe[i])]
Loads(text) ==
    IF \E i \in 1..Len(Universe) : UniverseTexts[i] = text
    THEN Universe[CHOOSE i \in 1..Len(Universe) : UniverseTexts[i] = text]
    ELSE JRaise

-----------------------------------------------------------------------------
(* app/ingest.py: the request cache and fetch_league_bundle;               *)
(* app/main.py: action_ingest_now.                                         *)

MaxRuns == 2

LeagueKey == "nfl.l.123"
Path(suffix) == <<"league/", LeagueKey, suffix>>

\* The endpoints table of fetch_league_bundle.
FetchEndpoints ==
    << Path(""), Path("/teams"), Path("/teams;out=roster"), Path("/players"),
       Path("/scoreboard"), Path("/standings"), Path("/transactions") >>

\* The endpoints table of action_ingest_now.
SnapshotEndpoints ==
    << Path(""), Path("/teams"), Path("/rosters"), Path("/players"),
       Path("/scoreboard"), Path("/standings"), Path("/transactions") >>

\* params={"format": "json"}
FormatJson == JDict(<< <<"format", JStr("json")>> >>)

\* "&".join(f"{k}={v}" for k, v in items)
RECURSIVE QueryString(_)
QueryString(items) ==
    IF items = <<>> THEN <<>>
    ELSE <<Head(items)[1], "=", MStr(Head(items)[2]).s>>
         \o (IF Len(items) > 1 THEN <<"&">> ELSE <<>>)
         \o QueryString(Tail(items))

cache_key_for_unsorted(path, params) ==
    IF Truthy(params)
    THEN Sha1(<<path, "?">> \o QueryString(params.kv))
    ELSE Sha1(<<path>>)
cache_key_for(path, params) ==
    IF Truthy(params)
    THEN Sha1(<<path, "?">> \o QueryString(SortPairs(params.kv)))
    ELSE Sha1(<<path>>)

\* _cache_read: None when there is no file, else json.loads of its text.
cache_read(files, key) ==
    IF key \in DOMAIN files THEN Loads(files[key]) ELSE JNull

\* _cache_write: the files afterwards.
cache_write_nothing(files, key, data) == files
cache_write(files, key, data) == WithRow(files, key, Dumps(data))

\* _get_or_fetch_json: the files after a successful request; only a dict is
\* written.
WriteThroughAlways(files, key, data) == cache_write(files, key, data)
WriteThrough(files, key, data) ==
    IF IsDict(data) THEN cache_write(files, key, data) ELSE files

\* The texts a killed write_text can leave: the file truncated, or cut short.
PartialTexts(text) == {SubSeq(text, 1, 0), SubSeq(text, 1, Len(text) - 1)}

\* The tables an upsert helper leaves, given the call.
TablesAfterForeignKeys(t, call) ==
    CASE call.op = "upsert_player" ->
            [t EXCEPT !.players = PlayersAfter(t.players, call.args)]
      [] call.op = "upsert_team" ->
            [t EXCEPT !.teams = TeamsAfter(t.teams, call.args)]
      [] call.op = "upsert_roster" ->
            IF call.args.team_id \in DOMAIN t.teams /\ call.args.player_id \in DOMAIN t.players
            THEN [t EXCEPT !.rosters = RostersAfter(t.rosters, call.args)]
            ELSE t
      [] call.op = "upsert_matchup" ->
            IF {call.args.team_id, call.args.opponent_id} \subseteq DOMAIN t.teams
            THEN [t EXCEPT !.matchups = MatchupsAfter(t.matchups, call.args)]
            ELSE t
      [] call.op = "insert_transaction_raw" ->
            IF call.args.team_id = Null \/ call.args.team_id[1] \in DOMAIN t.teams
            THEN [t EXCEPT !.transactions = TransactionsAfter(t.transactions, call.args)]
            ELSE t
TablesAfter(t, call) ==
    CASE call.op = "upsert_player" ->
            [t EXCEPT !.players = PlayersAfter(t.players, call.args)]
      [] call.op = "upsert_team" ->
            [t EXCEPT !.teams = TeamsAfter(t.teams, call.args)]
      [] call.op = "upsert_roster" ->
            [t EXCEPT !.rosters = RostersAfter(t.rosters, call.args)]
      [] call.op = "upsert_matchup" ->
            [t EXCEPT !.matchups = MatchupsAfter(t.matchups, call.args)]
      [] call.op = "insert_transaction_raw" ->
            [t EXCEPT !.transactions = TransactionsAfter(t.transactions, call.args)]

Tables ==
    [players |-> players, teams |-> teams, rosters |-> rosters,
     matchups |-> matchups, transactions |-> transactions]

\* The tables of the migrated, empty database.
EmptyTables ==
    [players |-> EmptyTable, teams |-> EmptyTable, rosters |-> EmptyTable,
     matchups |-> EmptyTable, transactions |-> <<>>]

\* notify("info", title, body, payload)
Notified(title, body) == Append(notifications, [title |-> title, body |-> body])

\* The except branch of action_ingest_now.
FailsSilently(kind) ==
    /\ notifications' = notifications
    /\ pc' = "failed"
Fails(kind) ==
    /\ notifications' = Notified("Ingest error", kind)
    /\ pc' = "failed"

Key == cache_key_for(FetchEndpoints[idx], FormatJson)
Cached == cache_read(cache, Key)

\* The return of _get_or_fetch_json into the loop of fetch_league_bundle.
ReturnsPartial(data) ==
    /\ bundle' = Append(bundle, data)
    /\ IF idx >= Len(FetchEndpoints) - 1
       THEN pc' = "snapshot" /\ idx' = 1
       ELSE pc' = "fetch" /\ idx' = idx + 1
Returns(data) ==
    /\ bundle' = Append(bundle, data)
    /\ IF idx = Len(FetchEndpoints)
       THEN pc' = "snapshot" /\ idx' = 1
       ELSE pc' = "fetch" /\ idx' = idx + 1

StoreUnchanged == UNCHANGED <<snapshots, players, teams, rosters, matchups, transactions>>

\* POST /actions/ingest_now with a configured league key.
IngestNow ==
    /\ pc \in {"idle", "done", "failed", "killed"}
    /\ runs < MaxRuns
    /\ runs' = runs + 1
    /\ pc' = "fetch"
    /\ idx' = 1
    /\ bundle' = <<>>
    /\ queue' = <<>>
    /\ raises' = FALSE
    /\ requests' = <<>>
    /\ lookups' = <<>>
    /\ prev' = IF pc = "done"
               THEN [ok |-> TRUE, bundle |-> bundle, snapshots |-> snapshots,
                     tables |-> Tables]
               ELSE NoPrev
    /\ StoreUnchanged
    /\ UNCHANGED <<cache, notifications, calls, ret>>

\* _get_or_fetch_json, the cached value is returned.
FetchCached ==
    /\ pc = "fetch"
    /\ ~IsRaise(Cached) /\ ~IsNull(Cached)
    /\ lookups' = Append(lookups, <<idx, "cached">>)
    /\ Returns(Cached)
    /\ StoreUnchanged
    /\ UNCHANGED <<cache, notifications, queue, raises, runs, requests, prev, calls, ret>>

\* _get_or_fetch_json, json.loads raises in _cache_read.
FetchCacheUnreadable ==
    /\ pc = "fetch"
    /\ IsRaise(Cached)
    /\ lookups' = Append(lookups, <<idx, "unreadable">>)
    /\ Fails("cache")
    /\ StoreUnchanged
    /\ UNCHANGED <<cache, idx, bundle, queue, raises, runs, requests, prev, calls, ret>>

\* _get_or_fetch_json, no cache file: the request succeeds with a JSON body.
FetchFromNetwork ==
    /\ pc = "fetch"
    /\ IsNull(Cached)
    /\ \E i \in Responses[idx] :
          /\ cache' = WriteThrough(cache, Key, Universe[i])
          /\ Returns(Universe[i])
    /\ lookups' = Append(lookups, <<idx, "absent">>)
    /\ requests' = Append(requests, idx)
    /\ StoreUnchanged
    /\ UNCHANGED <<notifications, queue, raises, runs, prev, calls, ret>>

\* _get_or_fetch_json, no cache file: the request raises or has a
\* non-success status (RuntimeError), or the body is no JSON (ValueError).
FetchFailsRetry ==
    /\ pc = "fetch"
    /\ IsNull(Cached)
    /\ Len(requests) <= Len(FetchEndpoints)
    /\ lookups' = Append(lookups, <<idx, "absent">>)
    /\ requests' = Append(requests, idx)
    /\ StoreUnchanged
    /\ UNCHANGED <<cache, notifications, pc, idx, bundle, queue, raises, runs, prev,
                   calls, ret>>
FetchFails ==
    /\ pc = "fetch"
    /\ IsNull(Cached)
    /\ lookups' = Append(lookups, <<idx, "absent">>)
    /\ requests' = Append(requests, idx)
    /\ Fails("fetch")
    /\ StoreUnchanged
    /\ UNCHANGED <<cache, idx, bundle, queue, raises, runs, prev, calls, ret>>

\* The process is killed inside write_text of _cache_write.
KilledInCacheWrite ==
    /\ pc = "fetch"
    /\ IsNull(Cached)
    /\ \E i \in Responses[idx] :
          /\ IsDict(Universe[i])
          /\ \E text \in PartialTexts(Dumps(Universe[i])) :
                cache' = WithRow(cache, Key, text)
    /\ lookups' = Append(lookups, <<idx, "absent">>)
    /\ requests' = Append(requests, idx)
    /\ pc' = "killed"
    /\ StoreUnchanged
    /\ UNCHANGED <<notifications, idx, bundle, queue, raises, runs, prev, calls, ret>>

\* The process is killed between two steps of the handler.
Killed ==
    /\ pc \in {"fetch", "snapshot", "persist"}
    /\ pc' = "killed"
    /\ StoreUnchanged
    /\ UNCHANGED <<cache, notifications, idx, bundle, queue, raises, runs, requests,
                   lookups, prev, calls, ret>>

\* One iteration of the snapshot loop of action_ingest_now; after the last
\* one persist_bundle is entered.
Snapshot ==
    /\ pc = "snapshot"
    /\ snapshots' = SnapshotRows(snapshots, SnapshotEndpoints[idx], FormatJson,
                                 Dumps(bundle[idx]))
    /\ IF idx = Len(bundle)
       THEN /\ pc' = "persist"
            /\ idx' = 0
            /\ LET done == persist_bundle(bundle)
               IN  queue' = done.w /\ raises' = done.raised
       ELSE /\ idx' = idx + 1
            /\ UNCHANGED <<pc, queue, raises>>
    /\ UNCHANGED <<cache, players, teams, rosters, matchups, transactions, notifications,
                   bundle, runs, requests, lookups, prev, calls, ret>>

\* record_snapshot raises a sqlite3.Error.
SnapshotFails ==
    /\ pc = "snapshot"
    /\ Fails("snapshot")
    /\ StoreUnchanged
    /\ UNCHANGED <<cache, idx, bundle, queue, raises, runs, requests, lookups, prev,
                   calls, ret>>

\* persist_bundle: the next store call; it commits on its own connection.
PersistStep ==
    /\ pc = "persist"
    /\ queue # <<>>
    /\ LET t == TablesAfter(Tables, Head(queue))
       IN  /\ players' = t.players
           /\ teams' = t.teams
           /\ rosters' = t.rosters
           /\ matchups' = t.matchups
           /\ transactions' = t.transactions
    /\ queue' = Tail(queue)
    /\ UNCHANGED <<cache, snapshots, notifications, pc, idx, bundle, raises, runs,
                   requests, lookups, prev, calls, ret>>

\* persist_bundle: the next store call raises a sqlite3.Error.
PersistWriteFailsRollback ==
    /\ pc = "persist"
    /\ queue # <<>>
    /\ Fails("persist")
    /\ LET t == IF prev.ok THEN prev.tables ELSE EmptyTables
       IN  /\ players' = t.players
           /\ teams' = t.teams
           /\ rosters' = t.rosters
           /\ matchups' = t.matchups
           /\ transactions' = t.transactions
    /\ UNCHANGED <<cache, snapshots, idx, bundle, queue, raises, runs, requests, lookups,
                   prev, calls, ret>>
PersistWriteFails ==
    /\ pc = "persist"
    /\ queue # <<>>
    /\ Fails("persist")
    /\ StoreUnchanged
    /\ UNCHANGED <<cache, idx, bundle, queue, raises, runs, requests, lookups, prev,
                   calls, ret>>

\* persist_bundle returns or raises; the summary notification is posted.
PersistEnds ==
    /\ pc = "persist"
    /\ queue = <<>>
    /\ IF raises THEN Fails("persist")
       ELSE /\ notifications' = Notified("Ingest complete", ToString(Len(bundle)))
            /\ pc' = "done"
    /\ StoreUnchanged
    /\ UNCHANGED <<cache, idx, bundle, queue, raises, runs, requests, lookups, prev,
                   calls, ret>>

Init == InitStore /\ pc = "idle"

Next ==
    \/ IngestNow
    \/ FetchCached
    \/ FetchCacheUnreadable
    \/ FetchFromNetwork
    \/ FetchFails
    \/ KilledInCacheWrite
    \/ Killed
    \/ Snapshot
    \/ SnapshotFails
    \/ PersistStep
    \/ PersistWriteFails
    \/ PersistEnds

Spec == Init /\ [][Next]_vars

-----------------------------------------------------------------------------
(* Direct calls of _get_or_fetch_json, with any path and parameters.       *)

MaxFetchCalls == 2

FetchBodies == {League, Standings, TeamsPlain}

get_or_fetch_json ==
    /\ pc = "api"
    /\ Len(calls) < MaxFetchCalls
    /\ \E path \in SnapEndpoints, i \in 1..Len(SnapParams) :
          LET key == cache_key_for(path, SnapParams[i])
              cached == cache_read(cache, key)
              call == [op |-> "get_or_fetch_json", path |-> path,
                       params |-> SnapParams[i], key |-> key]
          IN  IF ~IsNull(cached)
              THEN /\ ret' = cached
                   /\ calls' = Append(calls, call @@ [ret |-> cached, requested |-> FALSE])
                   /\ UNCHANGED cache
              ELSE \/ \E data \in FetchBodies :
                        /\ cache' = WriteThrough(cache, key, data)
                        /\ ret' = data
                        /\ calls' = Append(calls, call @@ [ret |-> data, requested |-> TRUE])
                  \/ /\ ret' = JRaise
                     /\ calls' = Append(calls, call @@ [ret |-> JRaise, requested |-> TRUE])
                     /\ UNCHANGED cache
    /\ StoreUnchanged
    /\ UNCHANGED <<notifications, pc, idx, bundle, queue, raises, runs, requests, lookups,
                   prev>>

NextFetch == get_or_fetch_json
SpecFetch == InitApi /\ [][NextFetch]_vars

-----------------------------------------------------------------------------
(* Direct calls of fetch_league_bundle on one cache directory, while the   *)
(* platform's answers change between the calls.                            *)

MaxBundleCalls == 2

\* _get_or_fetch_json: the files afterwards, the value returned (JRaise when
\* it raises) and whether a request was issued, given what the platform
\* answers (JRaise: the request fails).
GetOrFetchJsonRefresh(files, path, params, response) ==
    IF IsRaise(response)
    THEN [files |-> files, ret |-> JRaise, requested |-> TRUE]
    ELSE [files |-> WriteThrough(files, cache_key_for(path, params), response),
          ret |-> response, requested |-> TRUE]
GetOrFetchJsonCachesFailure(files, path, params, response) ==
    LET key == cache_key_for(path, params)
        cached == cache_read(files, key)
    IN  IF IsRaise(cached)
        THEN [files |-> files, ret |-> JRaise, requested |-> FALSE]
        ELSE IF ~IsNull(cached)
        THEN [files |-> files, ret |-> cached, requested |-> FALSE]
        ELSE IF IsRaise(response)
        THEN [files |-> WithRow(files, key, Dumps(JDict(<<>>))), ret |-> JRaise,
              requested |-> TRUE]
        ELSE [files |-> WriteThrough(files, key, response), ret |-> response,
              requested |-> TRUE]
GetOrFetchJson(files, path, params, response) ==
    LET key == cache_key_for(path, params)
        cached == cache_read(files, key)
    IN  IF IsRaise(cached)
        THEN [files |-> files, ret |-> JRaise, requested |-> FALSE]
        ELSE IF ~IsNull(cached)
        THEN [files |-> files, ret |-> cached, requested |-> FALSE]
        ELSE IF IsRaise(response)
        THEN [files |-> files, ret |-> JRaise, requested |-> TRUE]
        ELSE [files |-> WriteThrough(files, key, response), ret |-> response,
              requested |-> TRUE]

\* The loop of fetch_league_bundle from resource i on.
RECURSIVE FetchLoop(_, _, _)
FetchLoop(st, upstream, i) ==
    IF i > Len(FetchEndpoints) \/ st.raised THEN st
    ELSE LET r == GetOrFetchJson(st.files, FetchEndpoints[i], FormatJson, upstream[i])
         IN  FetchLoop([files |-> r.files,
                        bundle |-> IF IsRaise(r.ret) THEN st.bundle
                                   ELSE Append(st.bundle, r.ret),
                        requests |-> IF r.requested THEN Append(st.requests, i)
                                     ELSE st.requests,
                        raised |-> IsRaise(r.ret)],
                       upstream, i + 1)

fetch_league_bundle(files, upstream) ==
    FetchLoop([files |-> files, bundle |-> <<>>, requests |-> <<>>, raised |-> FALSE],
              upstream, 1)

\* What the platform answers for the seven resources at the time of a call.
Upstreams ==
    { <<l, t, RostersYahooNoWeek, PlayersYahoo, m, s, TxYahoo>> :
         l \in {League, LeagueRenamed}, t \in {TeamsYahoo, TeamsPlain},
         m \in {MatchupsYahoo, MatchupsPlain}, s \in {Standings, JRaise} }

fetch_league_bundle_call ==
    /\ pc = "api"
    /\ Len(calls) < MaxBundleCalls
    /\ \E upstream \in Upstreams :
          LET st == fetch_league_bundle(cache, upstream)
          IN  /\ cache' = st.files
              /\ bundle' = IF st.raised THEN <<>> ELSE st.bundle
              /\ requests' = st.requests
              /\ calls' = Append(calls, [op |-> "fetch_league_bundle",
                                         upstream |-> upstream,
                                         raised |-> st.raised,
                                         ret |-> IF st.raised THEN <<>> ELSE st.bundle,
                                         requests |-> st.requests])
    /\ StoreUnchanged
    /\ UNCHANGED <<notifications, pc, idx, queue, raises, runs, lookups, prev, ret>>

NextBundle == fetch_league_bundle_call
SpecBundle == InitApi /\ [][NextBundle]_vars

-----------------------------------------------------------------------------
(* Direct calls of the two helpers of persist_bundle, _extract_items and   *)
(* _flatten_yahoo_list, on the shapes the platform wraps its records in.   *)
(* The helpers keep no state: a behaviour is one call.                     *)

MaxFlattenLen == 3

\* A record of a collection, told apart by its number.
Item(n) == JDict(<< <<"id", JInt(n)>> >>)
Info == JDict(<< <<"league_key", JStr("nfl.l.123")>> >>)

\* {"count": 4, "0": {...}, ...} with the keys in the given arrangement.
IndexedMap(ks) ==
    JDict([i \in 1..Len(ks) |->
              IF ks[i] = "count" THEN <<"count", JInt(4)>>
              ELSE <<ks[i], Item(DigitVal(ks[i]))>>])

ItemKeys == {"0", "1", "2", "10"}

\* Every arrangement of the item keys, with the count first, in the middle
\* or last.
Arrangements ==
    LET perms == {p \in [1..4 -> ItemKeys] : \A i, j \in 1..4 : i # j => p[i] # p[j]}
    IN  UNION {{ <<"count", p[1], p[2], p[3], p[4]>>,
                 <<p[1], p[2], "count", p[3], p[4]>>,
                 <<p[1], p[2], p[3], p[4], "count">> } : p \in perms}

Collections ==
    {IndexedMap(ks) : ks \in Arrangements}
    \cup {JList(<<Item(0), Item(1)>>), JList(<<Item(1), JInt(7), Item(0)>>)}

\* What a path may end in.
Leaves ==
    { JList(<<Item(0), Item(1)>>),
      IndexedMap(<<"0", "1", "count">>),
      IndexedMap(<<"1", "count", "0">>),
      JDict(<< <<"0", JInt(7)>>, <<"1", Item(1)>>, <<"count", JInt(2)>> >>),
      JDict(<<>>), JList(<<>>), JInt(7), JStr("x"), JNull }

\* The nodes a key may be looked up in, the child under the key where there
\* is one.
Wraps(key, child) ==
    { JDict(<< <<key, child>> >>),
      JDict(<< <<"count", JInt(1)>>, <<key, child>> >>),
      JDict(<< <<"other", child>> >>),
      JList(<< Info, JDict(<< <<key, child>> >>) >>),
      JList(<< JDict(<< <<key, child>> >>), Info >>),
      JList(<< JDict(<< <<key, child>> >>) >>),
      JList(<< Info, Info, JDict(<< <<key, child>> >>) >>),
      JList(<< Info, child >>),
      JList(<< child >>),
      JList(<<>>), JInt(7), JNull }

ExtractPaths ==
    { <<>>, <<"teams">>, <<"league", "teams">>, <<"fantasy_content", "league", "teams">> }

RECURSIVE Shapes(_)
Shapes(path) ==
    IF path = <<>> THEN Leaves
    ELSE UNION {Wraps(Head(path), child) : child \in Shapes(Tail(path))}

extract_items_call ==
    /\ pc = "api"
    /\ calls = <<>>
    /\ \E path \in ExtractPaths :
          \E data \in (IF path = <<>> THEN Collections \cup Leaves ELSE Shapes(path)) :
              /\ calls' = << [op |-> "extract_items", data |-> data, path |-> path] >>
              /\ ret' = extract_items(data, path)
    /\ StoreUnchanged
    /\ UNCHANGED <<cache, notifications, pc, idx, bundle, queue, raises, runs, requests,
                   lookups, prev>>

\* The elements of a wrapped list.
FlattenElements ==
    { JDict(<< <<"a", JInt(1)>> >>),
      JDict(<< <<"a", JInt(2)>> >>),
      JDict(<< <<"b", JInt(1)>> >>),
      JDict(<< <<"b", JInt(2)>>, <<"a", JInt(3)>> >>),
      JList(<< JDict(<< <<"a", JInt(4)>> >>) >>),
      JList(<< JList(<< JDict(<< <<"b", JInt(4)>> >>) >>), JDict(<< <<"c", JInt(1)>> >>) >>),
      JList(<<>>),
      JInt(7) }

\* A team as the platform wraps it.
TeamExample ==
    JList(<< JDict(<< <<"team_key", JStr("1.t.1")>> >>),
             JDict(<< <<"name", JStr("Alpha")>> >>),
             JDict(<< <<"managers", JList(<< JDict(<< <<"manager",
                 JDict(<< <<"nickname", JStr("Bob")>> >>)>> >>) >>)>> >>) >>)

FlattenInputs ==
    {JList(xs) : xs \in UNION {[1..n -> FlattenElements] : n \in 0..MaxFlattenLen}}
    \cup {JDict(<< <<"a", JInt(1)>> >>), JInt(7), JNull, TeamExample}

flatten_yahoo_list_call ==
    /\ pc = "api"
    /\ calls = <<>>
    /\ \E obj \in FlattenInputs :
          /\ calls' = << [op |-> "flatten_yahoo_list", data |-> obj] >>
          /\ ret' = flatten_yahoo_list(obj)
    /\ StoreUnchanged
    /\ UNCHANGED <<cache, notifications, pc, idx, bundle, queue, raises, runs, requests,
                   lookups, prev>>

NextShapes == extract_items_call \/ flatten_yahoo_list_call
SpecShapes == InitApi /\ [][NextShapes]_vars

-----------------------------------------------------------------------------
(* Direct calls of persist_bundle on an empty store, with the resources    *)
(* in their shapes, with records that lack a key and with malformed        *)
(* resources.  persist_bundle keeps no state of its own: a behaviour is    *)
(* one call.                                                               *)

\* One team as a flat record, and the same record in a plain array and as
\* the item of an indexed map; TeamsYahoo holds it as a wrapped list.
TeamRecord ==
    JDict(<< <<"team_key", JStr("t1")>>, <<"name", JStr("Alpha")>>,
      <<"managers", JList(<< JDict(<< <<"manager", JDict(<< <<"nickname",
      JStr("Bob")>> >>)>> >>) >>)>> >>)
TeamsRecordPlain ==
    JList(<< TeamRecord >>)
TeamsRecordIndexed ==
    JDict(<< <<"fantasy_content", JDict(<< <<"league",
      JList(<< JDict(<< <<"league_key", JStr("nfl.l.123")>> >>),
      JDict(<< <<"teams", JDict(<< <<"0", TeamRecord>>, <<"count",
      JInt(1)>> >>)>> >>) >>)>> >>)>> >>)
\* Records whose natural key cannot be resolved, before one whose key can.
TeamsKeyless ==
    JList(<< JDict(<< <<"name", JStr("NoKey")>> >>), JDict(<< <<"team_id",
      JStr("")>>, <<"name", JStr("Empty")>> >>), JDict(<< <<"team_id",
      JStr("t2")>>, <<"name", JStr("Beta")>> >>) >>)
TeamsYahooKeyless ==
    JDict(<< <<"fantasy_content", JDict(<< <<"league",
      JList(<< JDict(<< <<"league_key", JStr("nfl.l.123")>> >>),
      JDict(<< <<"teams", JDict(<< <<"0", JDict(<< <<"team",
      JList(<< JList(<< JDict(<< <<"name",
      JStr("NoKey")>> >>) >>) >>)>> >>)>>, <<"1", JDict(<< <<"team",
      JList(<< JList(<< JDict(<< <<"team_key", JStr("t2")>> >>),
      JDict(<< <<"name", JStr("Beta")>> >>), JDict(<< <<"managers",
      JList(<< JDict(<< <<"manager", JDict(<< <<"nickname",
      JStr("Cy")>> >>)>> >>) >>)>> >>) >>) >>)>> >>)>>, <<"count",
      JInt(2)>> >>)>> >>) >>)>> >>)>> >>)
PlayersKeyless ==
    JList(<< JDict(<< <<"name", JDict(<< <<"full",
      JStr("Pat Lee")>> >>)>> >>), JDict(<< <<"player_id", JStr("p2")>>,
      <<"name", JStr("Quin")>> >>) >>)
RostersKeyless ==
    JList(<< JDict(<< <<"team_id", JStr("t1")>>, <<"week", JInt(0)>>,
      <<"entries", JList(<< JDict(<< <<"player_id", JStr("p1")>>, <<"slot",
      JStr("RB")>> >>) >>)>> >>), JDict(<< <<"week", JInt(1)>>, <<"entries",
      JList(<< JDict(<< <<"player_id", JStr("p1")>> >>) >>)>> >>),
      JDict(<< <<"team_id", JStr("t1")>>, <<"week", JInt(1)>>, <<"entries",
      JList(<< JDict(<< <<"status", JStr("BN")>> >>), JDict(<< <<"player_id",
      JStr("p2")>>, <<"slot", JStr("WR")>> >>) >>)>> >>) >>)
MatchupsKeyless ==
    JList(<< JDict(<< <<"team_a", JDict(<< <<"team_id", JStr("t1")>> >>)>>,
      <<"team_b", JDict(<< <<"team_id", JStr("t2")>> >>)>> >>),
      JDict(<< <<"week", JInt(1)>>, <<"team_a", JDict(<<>>)>>, <<"team_b",
      JDict(<< <<"team_id", JStr("t2")>> >>)>> >>), JDict(<< <<"week",
      JInt(2)>>, <<"team_a", JDict(<< <<"team_id", JStr("t1")>> >>)>>,
      <<"team_b", JDict(<< <<"team_id", JStr("t2")>> >>)>> >>) >>)
\* Nodes of an unexpected type where an object is expected.
TeamsBadManager ==
    JDict(<< <<"fantasy_content", JDict(<< <<"league",
      JList(<< JDict(<< <<"league_key", JStr("nfl.l.123")>> >>),
      JDict(<< <<"teams", JDict(<< <<"0", JDict(<< <<"team",
      JList(<< JList(<< JDict(<< <<"team_key", JStr("t1")>> >>),
      JDict(<< <<"name", JStr("Alpha")>> >>), JDict(<< <<"managers",
      JList(<< JDict(<< <<"manager", JNull>> >>) >>)>> >>) >>) >>)>> >>)>>,
      <<"count", JInt(1)>> >>)>> >>) >>)>> >>)>> >>)
PlayersBadBye ==
    JList(<< JDict(<< <<"player_id", JStr("p1")>>, <<"name",
      JStr("Pat Lee")>>, <<"bye_week", JStr("x")>> >>) >>)
MatchupsNull ==
    JDict(<< <<"fantasy_content", JNull>> >>)
\* A bare scalar in the place of a resource.
BareInt == JInt(7)
BareStr == JStr("x")
TeamsInputs ==
    { TeamsPlain, TeamsYahoo, TeamsRecordPlain, TeamsRecordIndexed,
      TeamsKeyless, TeamsYahooKeyless, BareInt, TeamsBadManager }
PlayersInputs ==
    { PlayersPlain, PlayersKeyless, BareStr, PlayersBadBye }
RostersInputs ==
    { RostersSlot, RostersNoslot, RostersKeyless, RostersYahooNoWeek,
      BareInt }
MatchupsInputs ==
    { MatchupsPlain, MatchupsYahoo, MatchupsKeyless, MatchupsNull, BareInt }
TransactionsInputs ==
    { TxPlain, BareInt }

\* The store after the calls of a persist_bundle, each committed in order.
RECURSIVE Persisted(_, _)
Persisted(t, w) == IF w = <<>> THEN t ELSE Persisted(TablesAfter(t, Head(w)), Tail(w))

persist_bundle_call ==
    /\ pc = "api"
    /\ bundle = <<>>
    /\ \E t \in TeamsInputs, r \in RostersInputs, p \in PlayersInputs,
          m \in MatchupsInputs, x \in TransactionsInputs :
          LET b == <<League, t, r, p, m, Standings, x>>
              done == persist_bundle(b)
              after == Persisted(Tables, done.w)
          IN  /\ bundle' = b
              /\ raises' = done.raised
              /\ players' = after.players
              /\ teams' = after.teams
              /\ rosters' = after.rosters
              /\ matchups' = after.matchups
              /\ transactions' = after.transactions
    /\ UNCHANGED <<cache, snapshots, notifications, pc, idx, queue, runs, requests,
                   lookups, prev, calls, ret>>

NextPersist == persist_bundle_call
SpecPersist == InitApi /\ [][NextPersist]_vars

-----------------------------------------------------------------------------
(* The store calls of one bundle, applied one at a time in any order.  The  *)
(* schema declares no foreign key: a call reads and writes its own table.  *)

\* Bundles with and without the teams and players the other records name.
OrderBundles ==
    { <<League, t, RostersSlot, p, MatchupsPlain, Standings, TxPlain>> :
         t \in {TeamsPlain, BareInt}, p \in {PlayersPlain, BareStr} }

\* persist_bundle is entered: the store calls of the bundle are pending.
persist_begin ==
    /\ pc = "api"
    /\ bundle = <<>>
    /\ \E b \in OrderBundles :
          /\ bundle' = b
          /\ queue' = persist_bundle(b).w
          /\ raises' = persist_bundle(b).raised
    /\ StoreUnchanged
    /\ UNCHANGED <<cache, notifications, pc, idx, runs, requests, lookups, prev, calls, ret>>

\* One pending store call is made; it commits on its own connection.
store_call ==
    /\ pc = "api"
    /\ \E i \in 1..Len(queue) :
          LET t == TablesAfter(Tables, queue[i])
          IN  /\ players' = t.players
              /\ teams' = t.teams
              /\ rosters' = t.rosters
              /\ matchups' = t.matchups
              /\ transactions' = t.transactions
              /\ calls' = Append(calls, queue[i])
              /\ queue' = SubSeq(queue, 1, i - 1) \o SubSeq(queue, i + 1, Len(queue))
    /\ UNCHANGED <<cache, snapshots, notifications, pc, idx, bundle, raises, runs, requests,
                   lookups, prev, ret>>

NextAnyOrder == persist_begin \/ store_call
SpecAnyOrder == InitApi /\ [][NextAnyOrder]_vars

-----------------------------------------------------------------------------
(* Repeated calls of persist_bundle on one store, the transactions         *)
(* resource in its shapes, the matchups resource well-formed or not.       *)

MaxPersistCalls == 3

TxTwo ==
    JList(<< JDict(<< <<"type", JStr("drop")>>, <<"teamKey", JStr("t2")>> >>),
             JStr("note"),
             JDict(<< <<"kind", JStr("trade")>> >>) >>)
TxEmpty == JList(<<>>)

TxInputs == {TxPlain, TxTwo, TxEmpty, TxYahoo, BareInt}

persist_bundle_again ==
    /\ pc = "api"
    /\ Len(calls) < MaxPersistCalls
    /\ \E x \in TxInputs, m \in {MatchupsPlain, MatchupsNull} :
          LET b == <<League, TeamsPlain, RostersSlot, PlayersPlain, m, Standings, x>>
              done == persist_bundle(b)
              after == Persisted(Tables, done.w)
          IN  /\ bundle' = b
              /\ raises' = done.raised
              /\ players' = after.players
              /\ teams' = after.teams
              /\ rosters' = after.rosters
              /\ matchups' = after.matchups
              /\ transactions' = after.transactions
              /\ calls' = Append(calls, [op |-> "persist_bundle", transactions |-> x,
                                         raised |-> done.raised])
    /\ UNCHANGED <<cache, snapshots, notifications, pc, idx, queue, runs, requests, lookups,
                   prev, ret>>

NextLog == persist_bundle_again
SpecLog == InitApi /\ [][NextLog]_vars

-----------------------------------------------------------------------------
(* Properties of the store API                                             *)

Max(S) == CHOOSE x \in S : \A y \in S : y <= x

\* The parameters of a call as a map: its set of (key, value) pairs.
ParamMap(params) ==
    LET p == POr(params, JDict(<<>>)) IN {p.kv[i] : i \in 1..Len(p.kv)}

SameRequest(c, d) ==
    /\ c.endpoint = d.endpoint
    /\ ParamMap(c.params) = ParamMap(d.params)
    /\ c.raw = d.raw

EarlierSame(j) == {i \in 1..(j - 1) : SameRequest(calls[i], calls[j])}

C2_OneRowPerHash ==
    /\ \A i, j \in 1..Len(snapshots) :
          i # j => snapshots[i].content_hash # snapshots[j].content_hash
    /\ \A j \in 1..Len(calls) :
          IF EarlierSame(j) # {}
          THEN /\ calls[j].ret[2] = FALSE
               /\ \A i \in EarlierSame(j) : calls[i].ret[1] = calls[j].ret[1]
          ELSE calls[j].ret[2] = TRUE
    /\ Len(snapshots) = Cardinality({j \in 1..Len(calls) : EarlierSame(j) = {}})

C2_CallStep ==
    calls' # calls =>
        LET j == Len(calls')
            dup == \E i \in 1..Len(calls) : SameRequest(calls[i], calls'[j])
        IN  IF dup
            THEN snapshots' = snapshots /\ ret'[2] = FALSE
            ELSE /\ Len(snapshots') = Len(snapshots) + 1
                 /\ SubSeq(snapshots', 1, Len(snapshots)) = snapshots
                 /\ snapshots'[Len(snapshots')].content_hash = ret'[1]
                 /\ ret'[2] = TRUE

\* C2: after any sequence of record_snapshot calls the snapshots table holds
\* at most one row per content hash; a call whose (endpoint, params as a map
\* whatever the key order, raw body) equals that of an earlier call returns
\* the same hash with inserted = False and leaves the table unchanged; the
\* first call for a tuple returns inserted = True and adds exactly one row.
C2_SnapshotDedup == []C2_OneRowPerHash /\ [][C2_CallStep]_vars

\* A repeated request whose parameters came in another key order was
\* answered with inserted = False.
C2_Witness ==
    \E j \in 1..Len(calls) : \E i \in EarlierSame(j) :
        /\ calls[i].params # calls[j].params
        /\ calls[j].ret[2] = FALSE
        /\ calls[i].ret[2] = TRUE
        /\ Len(snapshots) < Len(calls)

RosterCallsFor(k) ==
    {i \in 1..Len(calls) : calls[i].op = "upsert_roster" /\ RosterKey(calls[i].args) = k}

LastStatus(k) == calls[Max(RosterCallsFor(k))].args.status

LastNonNullSlot(k) ==
    LET nn == {i \in RosterCallsFor(k) : calls[i].args.slot # Null}
    IN  IF nn = {} THEN Null ELSE calls[Max(nn)].args.slot

C3_RosterState ==
    /\ DOMAIN rosters = {RosterKey(calls[i].args) : i \in 1..Len(calls)}
    /\ \A k \in DOMAIN rosters :
          /\ rosters[k].slot = LastNonNullSlot(k)
          /\ rosters[k].status = LastStatus(k)

C3_RosterStep ==
    calls' # calls =>
        LET a == calls'[Len(calls')].args
            k == RosterKey(a)
        IN  /\ rosters'[k].status = a.status
            /\ a.slot # Null => rosters'[k].slot = a.slot
            /\ (a.slot = Null /\ k \in DOMAIN rosters) => rosters'[k].slot = rosters[k].slot
            /\ \A o \in DOMAIN rosters : o # k => rosters'[o] = rosters[o]

\* C3: over any sequence of upsert_roster calls on one (team_id, player_id,
\* week), a null slot leaves the stored slot as it is, a non-null slot
\* replaces it and the status is always overwritten (also with null): the
\* stored slot is the most recent non-null slot supplied and the stored
\* status that of the latest call.
C3_StickySlot == []C3_RosterState /\ [][C3_RosterStep]_vars

\* A key whose latest call carried a null slot and a null status after two
\* different non-null slots: the slot kept is the later of the two.
C3_Witness ==
    \E k \in DOMAIN rosters :
        LET is == RosterCallsFor(k)
        IN  /\ Cardinality(is) >= 3
            /\ calls[Max(is)].args.slot = Null
            /\ calls[Max(is)].args.status = Null
            /\ rosters[k].slot = Val("WR")
            /\ rosters[k].status = Null
            /\ \E i \in is : calls[i].args.slot = Val("RB")
            /\ \E i \in is : calls[i].args.status # Null

UpsertCalls(op) == {i \in 1..Len(calls) : calls[i].op = op}

LastCall(op, key, k) ==
    calls[Max({i \in UpsertCalls(op) : calls[i].args[key] = k})].args

LastMatchupCall(k) ==
    calls[Max({i \in UpsertCalls("upsert_matchup") : MatchupKey(calls[i].args) = k})].args

\* C4: after any sequence of upsert_player, upsert_team and upsert_matchup
\* calls each table holds exactly one row per natural key ever upserted and
\* every column of the row equals the argument of the most recent upsert of
\* that key, a null argument replacing a stored non-null value.
C4_LastWriteWins ==
    /\ DOMAIN players = {calls[i].args.player_id : i \in UpsertCalls("upsert_player")}
    /\ \A k \in DOMAIN players :
          LET a == LastCall("upsert_player", "player_id", k)
          IN  /\ players[k].name = a.name
              /\ players[k].position = a.position
              /\ players[k].team = a.team
              /\ players[k].bye_week = a.bye_week
    /\ DOMAIN teams = {calls[i].args.team_id : i \in UpsertCalls("upsert_team")}
    /\ \A k \in DOMAIN teams :
          LET a == LastCall("upsert_team", "team_id", k)
          IN  /\ teams[k].name = a.name
              /\ teams[k].manager = a.manager
              /\ teams[k].abbrev = a.abbrev
    /\ DOMAIN matchups = {MatchupKey(calls[i].args) : i \in UpsertCalls("upsert_matchup")}
    /\ \A k \in DOMAIN matchups :
          LET a == LastMatchupCall(k)
          IN  /\ matchups[k].opponent_id = a.opponent_id
              /\ matchups[k].is_playoffs = (IF a.is_playoffs THEN 1 ELSE 0)
              /\ matchups[k].projected = a.projected
              /\ matchups[k].actual = a.actual
              /\ matchups[k].result = a.result

\* A player and a matchup whose latest upsert carried nulls where an
\* earlier upsert of the same key carried values: the nulls are stored.
C4_Witness ==
    /\ "p1" \in DOMAIN players
    /\ players["p1"].position = Null
    /\ \E i \in UpsertCalls("upsert_player") :
          calls[i].args.player_id = "p1" /\ calls[i].args.position = Val("RB")
    /\ <<1, "t1">> \in DOMAIN matchups
    /\ matchups[<<1, "t1">>].projected = Null
    /\ \E i \in UpsertCalls("upsert_matchup") :
          MatchupKey(calls[i].args) = <<1, "t1">> /\ calls[i].args.projected = Val(100)

-----------------------------------------------------------------------------
(* Properties of the ingest-now pipeline                                   *)

Completed == pc = "done"

\* The run before this one completed and fetched the same bundle.
SameBundleAgain == Completed /\ prev.ok /\ prev.bundle = bundle

SnapshotsFor(i) ==
    {n \in 1..Len(snapshots) :
        /\ snapshots[n].endpoint = SnapshotEndpoints[i]
        /\ snapshots[n].params = Dumps(FormatJson)
        /\ snapshots[n].raw = Dumps(bundle[i])}

\* C1: when ingest-now has run twice over the same bundle content, after the
\* second run the snapshots table holds exactly one row per distinct
\* (endpoint, params, raw body) and is the table the first run left, and the
\* players, teams, rosters and matchups tables hold exactly the rows and
\* values they held after the first run.
C1_Idempotent ==
    SameBundleAgain =>
        /\ snapshots = prev.snapshots
        /\ \A i \in 1..Len(bundle) : Cardinality(SnapshotsFor(i)) = 1
        /\ \A m, n \in 1..Len(snapshots) :
              m # n => <<snapshots[m].endpoint, snapshots[m].params, snapshots[m].raw>>
                       # <<snapshots[n].endpoint, snapshots[n].params, snapshots[n].raw>>
        /\ players = prev.tables.players
        /\ teams = prev.tables.teams
        /\ rosters = prev.tables.rosters
        /\ matchups = prev.tables.matchups

\* The second of two completed runs over one bundle, whose rosters, players
\* and matchups came from the network both times.
C1_Witness ==
    /\ SameBundleAgain
    /\ Len(requests) >= 3
    /\ Len(snapshots) = Len(bundle)
    /\ DOMAIN players # {} /\ DOMAIN teams # {}
    /\ DOMAIN rosters # {} /\ DOMAIN matchups # {}
    /\ Len(transactions) > Len(prev.tables.transactions)

\* The matchups each matchups payload carries, as (week, team A, team B) in the
\* payload's order.
Pairings(m) ==
    CASE m = MatchupsPlain -> << <<1, "t1", "t2">> >>
      [] m = MatchupsYahoo -> << <<1, "t1", "t2">> >>
      [] m = MatchupsTwice -> << <<1, "t1", "t2">>, <<1, "t3", "t1">> >>
      [] OTHER -> <<>>

Ingested == IF Len(bundle) >= 5 THEN Pairings(bundle[5]) ELSE <<>>

HasMatchupRow(w, a, b) ==
    /\ <<w, a>> \in DOMAIN matchups
    /\ matchups[<<w, a>>].opponent_id = b

BothRows(p) == HasMatchupRow(p[1], p[2], p[3]) /\ HasMatchupRow(p[1], p[3], p[2])

\* A later matchup of the same payload and week names one of the two teams.
Repaired(P, n) ==
    \E m \in (n + 1)..Len(P) :
        P[m][1] = P[n][1] /\ {P[m][2], P[m][3]} \cap {P[n][2], P[n][3]} # {}

\* C5 as stated: on completion of persist_bundle the matchups table holds
\* both rows (w, A, opponent B) and (w, B, opponent A) of every matchup
\* ingested.
C5_BothRowsAlways ==
    Completed => \A n \in 1..Len(Ingested) : BothRows(Ingested[n])

\* C5: on completion of persist_bundle the matchups table holds both rows
\* (w, A, opponent B) and (w, B, opponent A) of every ingested matchup, in
\* the plain-array and the nested scoreboard shape, unless a later matchup of
\* the same payload and week names A or B; the table holds one row per
\* (week, team), so the row of a repeated team holds its last opponent.
C5_BothRows ==
    Completed =>
        \A n \in 1..Len(Ingested) :
            /\ ~Repaired(Ingested, n) => BothRows(Ingested[n])
            /\ \A t \in {Ingested[n][2], Ingested[n][3]} :
                  <<Ingested[n][1], t>> \in DOMAIN matchups

\* A run over the nested scoreboard shape that followed a run over the plain
\* array in which t1 played twice: t1's row held t3 and now holds t2.
C5_Witness ==
    /\ Completed /\ prev.ok
    /\ prev.bundle[5] = MatchupsTwice
    /\ bundle[5] = MatchupsYahoo
    /\ prev.tables.matchups[<<1, "t1">>].opponent_id = "t3"
    /\ prev.tables.matchups[<<1, "t3">>].opponent_id = "t1"
    /\ BothRows(<<1, "t1", "t2">>)

\* C6: in every state a run is left in when the process is killed or a
\* write fails, either both rows (w, A, opponent B) and (w, B, opponent A)
\* of a matchup of the bundle have been written or neither has.
C6_PairAtomic ==
    pc \in {"killed", "failed"} =>
        \A n \in 1..Len(Ingested) :
            LET p == Ingested[n]
            IN  (<<p[1], p[2]>> \in DOMAIN matchups) <=> (<<p[1], p[3]>> \in DOMAIN matchups)

\* The lookups of this fetch_league_bundle call that found no cached payload.
NotCached == {n \in 1..Len(lookups) : lookups[n][2] # "cached"}

\* C7: over a fetch_league_bundle call the number of network requests is the
\* number of resources that had no cached payload when they were looked up,
\* and a resource that had one is returned from the cache.
C7_RequestsAreMisses ==
    /\ Len(requests) = Cardinality(NotCached)
    /\ \A n \in 1..Len(lookups) :
          (lookups[n][2] = "cached" /\ lookups[n][1] <= Len(bundle)) =>
              bundle[lookups[n][1]] = cache_read(cache, cache_key_for(
                                          FetchEndpoints[lookups[n][1]], FormatJson))

\* A request of this step returned a body to fetch_league_bundle.
Fetched == Len(requests') = Len(requests) + 1 /\ Len(bundle') = Len(bundle) + 1

\* C8 as stated: once the request of a cache miss succeeds the body is in
\* the cache under the request's key, whatever the body.
C8_WriteThroughAlways ==
    [][Fetched => cache_read(cache', Key) = bundle'[Len(bundle')]]_vars

\* C8: on a cache miss a request is issued and, once it succeeds with a
\* JSON object as its body, the body is in the cache under the request's key
\* before the step returns, so that the next get-or-fetch of the same
\* (endpoint, params) is a hit returning that body; a body that is no object
\* is returned without being written.
C8_WriteThroughObjects ==
    [][/\ (pc = "fetch" /\ IsNull(Cached) /\ pc' # "killed") => requests' # requests
       /\ Fetched =>
            LET body == bundle'[Len(bundle')]
            IN  IF IsDict(body) THEN cache_read(cache', Key) = body
                ELSE cache' = cache]_vars

\* The second run found the league, fetched by the first run, in the cache.
C8_Witness ==
    /\ runs = 2
    /\ Len(lookups) >= 1
    /\ lookups[1] = <<1, "cached">>
    /\ bundle[1] = League
    /\ requests # <<>>

ObjectTexts == {UniverseTexts[i] : i \in {j \in 1..Len(Universe) : IsDict(Universe[j])}}

C9_CacheHoldsObjects ==
    \A k \in DOMAIN cache :
        \/ cache[k] \in ObjectTexts
        \/ \E text \in ObjectTexts : cache[k] \in PartialTexts(text)

C9_FetchStep ==
    Fetched =>
        LET body == bundle'[Len(bundle')]
        IN  /\ body \in {Universe[i] : i \in Responses[idx]}
            /\ ~IsDict(body) => (Key \notin DOMAIN cache' /\ cache' = cache)

\* C9: a fetched body is written to the cache only if it is a JSON object:
\* after a successful request whose body is an array the cache has no entry
\* for the key and the body is still returned, and every entry the cache
\* ever holds is the text of an object (or what a killed write left of one).
C9_OnlyObjectsCached == []C9_CacheHoldsObjects /\ [][C9_FetchStep]_vars

\* A completed fetch in which arrays were returned and only the objects
\* were written.
C9_Witness ==
    /\ pc = "snapshot"
    /\ Len(requests) = Len(FetchEndpoints)
    /\ ~IsDict(bundle[3]) /\ ~IsDict(bundle[5])
    /\ cache_key_for(FetchEndpoints[3], FormatJson) \notin DOMAIN cache
    /\ cache_key_for(FetchEndpoints[1], FormatJson) \in DOMAIN cache

\* C10: a cache file that does not parse is treated as a miss: the request
\* is issued and no error of the cache read ends the run.
C10_UnreadableIsMiss ==
    \A n \in 1..Len(lookups) :
        lookups[n][2] = "unreadable" =>
            /\ \E r \in 1..Len(requests) : requests[r] = lookups[n][1]
            /\ pc # "failed"

\* fetch_league_bundle has returned to action_ingest_now.
Returned == pc \in {"snapshot", "persist", "done"}

C11_WholeBundle ==
    /\ Returned =>
          /\ Len(bundle) = Len(ResourceNames)
          /\ \A i \in 1..Len(bundle) : bundle[i] \in {Universe[j] : j \in Responses[i]}
          /\ \A n \in 1..Len(lookups) : lookups[n][2] \in {"cached", "absent"}
          /\ \A r \in 1..Len(requests) : requests[r] <= Len(bundle)
    /\ pc = "fetch" => Len(bundle) = idx - 1

C11_FetchStep ==
    (pc = "fetch" /\ pc' \notin {"fetch", "killed"}) =>
        \/ pc' = "snapshot" /\ idx = Len(ResourceNames) /\ Len(bundle') = idx
        \/ /\ pc' = "failed"
           /\ bundle' = bundle
           /\ Len(notifications') = Len(notifications) + 1
           /\ notifications'[Len(notifications')].title = "Ingest error"

\* C11: fetch_league_bundle has no partial success: when the fetch of one of
\* the seven resources fails the call raises and no bundle reaches the caller,
\* and a bundle that is returned maps every one of the seven resource names
\* to its cached or fetched payload.
C11_AllOrNothing == []C11_WholeBundle /\ [][C11_FetchStep]_vars

\* The fourth resource failed after three were fetched: the run ended in the
\* error branch and recorded nothing.
C11_Witness ==
    /\ pc = "failed"
    /\ runs = 1
    /\ Len(bundle) = 3
    /\ Len(requests) = 4
    /\ snapshots = <<>>
    /\ notifications = <<[title |-> "Ingest error", body |-> "fetch"]>>

C12_OncePerResource ==
    /\ \A m, n \in 1..Len(requests) : m < n => requests[m] < requests[n]
    /\ pc = "fetch" => \A r \in 1..Len(requests) : requests[r] <= Len(bundle)

C12_NoRequestAfterFailure ==
    /\ (Len(requests') = Len(requests) + 1 /\ bundle' = bundle) => pc' \in {"failed", "killed"}
    /\ (pc = "failed" /\ requests' # requests) => (runs' = runs + 1 /\ requests' = <<>>)

\* C12: no retries: within one fetch_league_bundle call every resource is
\* requested from the network at most once, and after the first request that
\* fails the failure propagates with no further request in that call.
C12_NoRetries == []C12_OncePerResource /\ [][C12_NoRequestAfterFailure]_vars

\* A second run whose request for the rosters failed after the league and
\* the teams were served from the cache.
C12_Witness ==
    /\ pc = "failed"
    /\ runs = 2
    /\ requests = <<3>>
    /\ lookups = << <<1, "cached">>, <<2, "cached">>, <<3, "absent">> >>

SameParams(p, q) == ParamMap(p) = ParamMap(q)

C13_KeyOfMap ==
    \A path \in SnapEndpoints : \A i, j \in 1..Len(SnapParams) :
        SameParams(SnapParams[i], SnapParams[j]) =>
            cache_key_for(path, SnapParams[i]) = cache_key_for(path, SnapParams[j])

\* C13: the cache key depends only on the endpoint and the set of (key,
\* value) parameter pairs, not on the order the parameters are given in:
\* two orderings of one map have the same key, so a payload stored under one
\* ordering is a cache hit under the other.
C13_KeyIgnoresOrder ==
    /\ C13_KeyOfMap
    /\ \A i, j \in 1..Len(calls) :
          (/\ i < j
           /\ calls[i].path = calls[j].path
           /\ SameParams(calls[i].params, calls[j].params)) =>
              /\ calls[i].key = calls[j].key
              /\ IsDict(calls[i].ret) =>
                    (calls[j].ret = calls[i].ret /\ ~calls[j].requested)

\* {b:2, a:1} was served from the cache with the object fetched for {a:1, b:2}.
C13_Witness ==
    /\ Len(calls) = 2
    /\ calls[1].params = SnapParams[3]
    /\ calls[2].params = SnapParams[4]
    /\ calls[1].path = calls[2].path
    /\ calls[1].requested /\ ~calls[2].requested
    /\ calls[2].ret = League

-----------------------------------------------------------------------------
(* Properties of the shape helpers                                         *)

Extracted == calls # <<>> /\ calls[1].op = "extract_items"

\* C14: extraction from an indexed-map collection returns the items in
\* ascending numeric order of their keys, whatever the arrangement of the
\* keys in the object: keys "0", "1", "10", "2" and a count extract as items
\* 0, 1, 2, 10.
C14_NumericOrder ==
    (Extracted /\ calls[1].path = <<>> /\ IsDict(calls[1].data)
       /\ \A k \in ItemKeys : HasKey(calls[1].data, k)) =>
        ret = <<Item(0), Item(1), Item(2), Item(10)>>

\* The value with the first two-element list on the path turned around.
RECURSIVE MirrorPair(_, _)
MirrorPair(v, path) ==
    IF path = <<>> THEN v
    ELSE IF IsList(v) /\ Len(v.xs) = 2 THEN JList(<<v.xs[2], v.xs[1]>>)
    ELSE IF IsDict(v) /\ HasKey(v, Head(path))
         THEN JDict(SetKey(v.kv, Head(path), MirrorPair(Get(v, Head(path)), Tail(path))))
         ELSE v

\* C17: where a node on the path is a two-element list the navigator goes
\* on through the element that is a dict holding the next key, at index 0 as
\* at index 1: the items extracted are the same with the pair either way
\* round.
C17_EitherIndex ==
    Extracted => ret = extract_items(MirrorPair(calls[1].data, calls[1].path), calls[1].path)

\* The nodes the path leads to: through a dict by its key, through a list
\* by an element that is a dict holding the key.
RECURSIVE Follows(_, _)
Follows(v, path) ==
    IF path = <<>> THEN {v}
    ELSE IF IsDict(v)
         THEN (IF HasKey(v, Head(path)) THEN Follows(Get(v, Head(path)), Tail(path)) ELSE {})
    ELSE IF IsList(v)
         THEN UNION {Follows(Get(v.xs[i], Head(path)), Tail(path)) :
                        i \in {j \in 1..Len(v.xs) : IsDict(v.xs[j]) /\ HasKey(v.xs[j], Head(path))}}
    ELSE {}

ItemsOf(node) ==
    IF IsList(node) THEN node.xs
    ELSE IF IsDict(node) THEN DigitItems(node.kv)
    ELSE <<>>

\* C18: the navigator returns a list for every value and path, and the
\* empty list when the path cannot be followed to a list or an indexed map:
\* what it returns is empty or the items of a node the path leads to.
C18_DeadEndIsEmpty ==
    Extracted =>
        \/ ret = <<>>
        \/ \E node \in Follows(calls[1].data, calls[1].path) : ret = ItemsOf(node)

Flattened == calls # <<>> /\ calls[1].op = "flatten_yahoo_list"

\* The (key, value) pairs of the maps of a wrapped list, left to right, those
\* of a nested list at the position of the list.
RECURSIVE PairsOf(_)
PairsOf(xs) ==
    IF xs = <<>> THEN <<>>
    ELSE (IF IsDict(Head(xs)) THEN Head(xs).kv
          ELSE IF IsList(Head(xs)) THEN PairsOf(Head(xs).xs)
          ELSE <<>>) \o PairsOf(Tail(xs))

LastOf(ps, k) == ps[Max({j \in 1..Len(ps) : ps[j][1] = k})][2]

\* C15: flattening a wrapped list of singletons merges its maps into one map
\* left to right, a later occurrence of a key overwriting an earlier one, a
\* nested list flattened and merged at its position; the wrapped team
\* [{team_key: 1.t.1}, {name: Alpha}, {managers: [{manager: {nickname: Bob}}]}]
\* flattens to one map from which Team(1.t.1, Alpha, Bob) is upserted.
C15_FlattenMerges ==
    Flattened =>
        LET obj == calls[1].data IN
        /\ IsDict(ret)
        /\ \A i, j \in 1..Len(ret.kv) : i # j => ret.kv[i][1] # ret.kv[j][1]
        /\ IsList(obj) =>
              LET ps == PairsOf(obj.xs)
              IN  /\ {ret.kv[i][1] : i \in 1..Len(ret.kv)} = {ps[j][1] : j \in 1..Len(ps)}
                  /\ \A i \in 1..Len(ret.kv) : ret.kv[i][2] = LastOf(ps, ret.kv[i][1])
        /\ obj = TeamExample =>
              /\ ret = JDict(<< <<"team_key", JStr("1.t.1")>>, <<"name", JStr("Alpha")>>,
                                obj.xs[3].kv[1] >>)
              /\ TeamFromYahoo(JDict(<< <<"team", obj>> >>))
                    = Writes(<< [op |-> "upsert_team",
                                 args |-> [team_id |-> "1.t.1", name |-> "Alpha",
                                           manager |-> Val("Bob"), abbrev |-> Null]] >>)

\* A later map overwrote b and a nested list overwrote a, each in its place.
C15_Witness ==
    /\ Flattened
    /\ calls[1].data = JList(<< JDict(<< <<"b", JInt(2)>>, <<"a", JInt(3)>> >>),
                                JList(<< JDict(<< <<"a", JInt(4)>> >>) >>),
                                JDict(<< <<"b", JInt(1)>> >>) >>)
    /\ ret = JDict(<< <<"b", JInt(1)>>, <<"a", JInt(4)>> >>)

-----------------------------------------------------------------------------
(* Properties of persist_bundle                                            *)

\* persist_bundle has been called: it returned or raised.
PersistCalled == pc = "api" /\ bundle # <<>>

\* C16: for one logical record, a team with key t1, name Alpha and manager
\* nickname Bob, persist_bundle writes the same team row whether the
\* resource is a plain array of the record, an indexed map of it, or holds
\* it as a wrapped list of singletons.
C16_ShapeInvariant ==
    (PersistCalled /\ bundle[2] \in {TeamsRecordPlain, TeamsRecordIndexed, TeamsYahoo}) =>
        teams = ("t1" :> [name |-> "Alpha", manager |-> Val("Bob"), abbrev |-> Null])

Malformed == {BareInt, BareStr, TeamsBadManager, PlayersBadBye, MatchupsNull}

\* C19: a resource that matches none of the recognised shapes makes
\* persist_bundle write no record for it and raise nothing, and every
\* sibling resource is still persisted.
C19_MalformedSkipped ==
    PersistCalled =>
        /\ ~raises
        /\ bundle[2] \in Malformed => teams = EmptyTable
        /\ bundle[5] \in Malformed => matchups = EmptyTable
        /\ bundle[2] = TeamsYahoo => DOMAIN teams = {"t1"}
        /\ bundle[5] = MatchupsPlain => DOMAIN matchups = {<<1, "t1">>, <<1, "t2">>}
        /\ bundle[7] = TxPlain => Len(transactions) = 1

\* No resource of the bundle has a node of an unexpected type.
WellTyped == \A i \in 1..Len(bundle) : bundle[i] \notin {TeamsBadManager, PlayersBadBye, MatchupsNull}

\* C20: persist_bundle upserts no player, team, roster entry or matchup
\* whose natural key cannot be resolved (an empty id, a missing or zero
\* week): the record is skipped without raising, no row has an empty key
\* component, and the records after it are still processed.
C20_UnresolvedSkipped ==
    PersistCalled =>
        /\ "" \notin DOMAIN teams
        /\ "" \notin DOMAIN players
        /\ \A k \in DOMAIN rosters : k[1] # "" /\ k[2] # "" /\ k[3] > 0
        /\ \A k \in DOMAIN matchups :
              k[1] > 0 /\ k[2] # "" /\ matchups[k].opponent_id # ""
        /\ WellTyped => ~raises
        /\ bundle[2] \in {TeamsKeyless, TeamsYahooKeyless} => DOMAIN teams = {"t2"}
        /\ ~raises =>
              /\ bundle[4] = PlayersKeyless => "p2" \in DOMAIN players
              /\ bundle[3] = RostersKeyless => DOMAIN rosters = {<<"t1", "p2", 1>>}
              /\ bundle[3] = RostersYahooNoWeek =>
                    (DOMAIN rosters = {} /\ "p3" \in DOMAIN players)
              /\ bundle[5] = MatchupsKeyless => DOMAIN matchups = {<<2, "t1">>, <<2, "t2">>}

\* Every resource began with records without a key: only the records after
\* them were written.
C20_Witness ==
    /\ PersistCalled /\ ~raises
    /\ bundle[2] = TeamsKeyless /\ DOMAIN teams = {"t2"}
    /\ bundle[4] = PlayersKeyless /\ DOMAIN players = {"p2"}
    /\ bundle[3] = RostersKeyless /\ DOMAIN rosters = {<<"t1", "p2", 1>>}
    /\ bundle[5] = MatchupsKeyless /\ DOMAIN matchups = {<<2, "t1">>, <<2, "t2">>}

-----------------------------------------------------------------------------
(* Properties of the store calls in any order                              *)

\* C21: no entity write depends on a related row: whatever the order of the
\* store calls of a bundle, and whether or not the teams and players they
\* name are in the store, every upsert_roster and upsert_matchup made has
\* its row in the table, and every insert_transaction_raw made has appended
\* its row.
C21_NoForeignRows ==
    /\ \A i \in UpsertCalls("upsert_roster") :
          /\ RosterKey(calls[i].args) \in DOMAIN rosters
          /\ rosters[RosterKey(calls[i].args)].status = calls[i].args.status
    /\ \A i \in UpsertCalls("upsert_matchup") :
          /\ MatchupKey(calls[i].args) \in DOMAIN matchups
          /\ matchups[MatchupKey(calls[i].args)] = MatchupRow(calls[i].args)
    /\ Len(transactions) = Cardinality(UpsertCalls("insert_transaction_raw"))
    /\ \A i \in UpsertCalls("insert_transaction_raw") :
          \E j \in 1..Len(transactions) : transactions[j].raw = calls[i].args.raw

\* The roster entry, a matchup row and the transaction were written while
\* the teams and players tables were still empty.
C21_Witness ==
    /\ teams = EmptyTable /\ players = EmptyTable
    /\ <<"t1", "p1", 1>> \in DOMAIN rosters
    /\ <<1, "t1">> \in DOMAIN matchups
    /\ Len(transactions) = 1 /\ transactions[1].team_id = Val("t1")

-----------------------------------------------------------------------------
(* Properties of the transaction log                                       *)

\* The transaction records a resource holds: the objects of a plain array,
\* the count the platform states for its collection.
TxCount(x) ==
    IF IsList(x) THEN Cardinality({i \in 1..Len(x.xs) : IsDict(x.xs[i])})
    ELSE IF IsDict(x)
         THEN Get(Get(Get(Get(x, "fantasy_content"), "league").xs[2], "transactions"),
                  "count").n
         ELSE 0

RECURSIVE TxTotal(_)
TxTotal(cs) == IF cs = <<>> THEN 0 ELSE TxCount(Head(cs).transactions) + TxTotal(Tail(cs))

\* The log holds one row per record of every call made so far.
C22_LogLength == Len(transactions) = TxTotal(calls)

\* A call of persist_bundle keeps every row of the log as it was and appends
\* one row per transaction record of its bundle.
C22_CallStep ==
    /\ Len(transactions') >= Len(transactions)
    /\ SubSeq(transactions', 1, Len(transactions)) = transactions
    /\ calls' # calls =>
          Len(transactions') = Len(transactions) + TxCount(bundle'[7])

\* C22: the transaction log is append-only: no call of persist_bundle
\* modifies or deletes a row, and every call appends one row per transaction
\* record of its bundle, also when an earlier call appended the same payload.
C22_AppendOnly == []C22_LogLength /\ [][C22_CallStep]_vars

-----------------------------------------------------------------------------
(* Properties of interrupted and failing runs of ingest-now                *)

\* What one uninterrupted run over bundle b leaves on an empty store and an
\* empty cache directory.
RECURSIVE SnapshotsOfRun(_, _)
SnapshotsOfRun(b, n) ==
    IF n = 0 THEN <<>>
    ELSE SnapshotRows(SnapshotsOfRun(b, n - 1), SnapshotEndpoints[n], FormatJson,
                      Dumps(b[n]))
TablesOfRun(b) == Persisted(EmptyTables, persist_bundle(b).w)
CacheOfRun(b) ==
    LET cached == {i \in 1..Len(b) : IsDict(b[i])}
    IN  [k \in {cache_key_for(FetchEndpoints[i], FormatJson) : i \in cached} |->
            Dumps(b[CHOOSE i \in cached : cache_key_for(FetchEndpoints[i], FormatJson) = k])]

\* Every run so far saw the upstream data of this bundle: a run records its
\* snapshots before its first store write.
SameUpstream ==
    \A n \in 1..Len(snapshots) :
        \E i \in 1..Len(bundle) : snapshots[n].raw = Dumps(bundle[i])

\* The run before this one was cut off or failed.
Rerun == runs = 2 /\ ~prev.ok

\* C23: when a run of ingest-now was cut off after a prefix of its writes
\* and ingestion is run again over the same upstream data, the re-run does
\* not fail on what the cut-off run left, and when it completes the cache
\* and the store hold what one uninterrupted run leaves.
C23_RerunConverges ==
    /\ (Rerun /\ pc = "failed") => \A i \in 1..Len(lookups) : lookups[i][2] # "unreadable"
    /\ (Rerun /\ Completed /\ SameUpstream) =>
          /\ cache = CacheOfRun(bundle)
          /\ snapshots = SnapshotsOfRun(bundle, Len(bundle))
          /\ Tables = TablesOfRun(bundle)

\* The failure the latest summary notification reports.
LastError ==
    IF notifications # <<>> /\ notifications[Len(notifications)].title = "Ingest error"
    THEN notifications[Len(notifications)].body ELSE "none"

FetchFailed == pc = "failed" /\ LastError \in {"fetch", "cache"}

\* Every resource of the bundle has its snapshot.
AllSnapshotted == \A i \in 1..Len(bundle) : SnapshotsFor(i) # {}

C24_StageStep ==
    /\ pc = "fetch" =>
          /\ pc' \in {"fetch", "snapshot", "failed", "killed"}
          /\ snapshots' = snapshots /\ Tables' = Tables
          /\ pc' = "snapshot" => Len(bundle') = Len(ResourceNames)
    /\ pc = "snapshot" =>
          /\ pc' \in {"snapshot", "persist", "failed", "killed"}
          /\ requests' = requests /\ bundle' = bundle /\ Tables' = Tables
          /\ pc' = "persist" => AllSnapshotted'
    /\ pc = "persist" =>
          /\ pc' \in {"persist", "done", "failed", "killed"}
          /\ requests' = requests /\ bundle' = bundle /\ snapshots' = snapshots
    /\ snapshots' # snapshots => pc = "snapshot"
    /\ Tables' # Tables => (pc = "persist" /\ AllSnapshotted)
    /\ Len(requests') > Len(requests) => pc = "fetch"

C24_FailedFetchWritesNothing ==
    FetchFailed =>
        /\ runs = 1 => (snapshots = <<>> /\ Tables = EmptyTables)
        /\ prev.ok => (snapshots = prev.snapshots /\ Tables = prev.tables)

\* C24: a run of ingest-now fetches every resource of the bundle before it
\* records the first snapshot and records every snapshot before the first
\* store write of persist_bundle; a run whose fetch fails records no
\* snapshot and writes no row.
C24_StagesInOrder == []C24_FailedFetchWritesNothing /\ [][C24_StageStep]_vars

\* The fetch of a run that followed a completed run failed at a request:
\* the snapshots and the tables are those of the completed run.
C24_Witness ==
    /\ FetchFailed /\ LastError = "fetch"
    /\ prev.ok
    /\ Len(bundle) >= 3
    /\ Len(snapshots) >= Len(ResourceNames)
    /\ snapshots = prev.snapshots /\ Tables = prev.tables

\* The store calls persist_bundle has made in this run.
WritesDone ==
    LET w == persist_bundle(bundle).w
    IN  SubSeq(w, 1, Len(w) - Len(queue))

C25_FailStep ==
    (pc # "failed" /\ pc' = "failed") =>
        /\ cache' = cache
        /\ snapshots' = snapshots
        /\ Tables' = Tables

C25_Retained ==
    pc = "failed" =>
        /\ \A i \in 1..Len(bundle) :
              IsDict(bundle[i]) =>
                  cache_read(cache, cache_key_for(FetchEndpoints[i], FormatJson)) = bundle[i]
        /\ LastError = "persist" =>
              /\ AllSnapshotted
              /\ runs = 1 => Tables = Persisted(EmptyTables, WritesDone)
              /\ prev.ok => Tables = Persisted(prev.tables, WritesDone)

\* C25: nothing is rolled back on failure: when a run of ingest-now fails,
\* the cache files written for the resources fetched before, the snapshots
\* recorded and the rows upserted before the failure are present and
\* unchanged afterwards.
C25_NoRollback == []C25_Retained /\ [][C25_FailStep]_vars

\* A first run failed inside persist_bundle after the team and the player
\* were upserted: they, the snapshots and the cache files are kept.
C25_Witness ==
    /\ pc = "failed" /\ LastError = "persist"
    /\ runs = 1
    /\ Len(WritesDone) = 2 /\ queue # <<>>
    /\ DOMAIN teams = {"t1"} /\ DOMAIN players = {"p1"}
    /\ Len(snapshots) = Len(ResourceNames)
    /\ DOMAIN cache # {}

Running == pc \in {"fetch", "snapshot", "persist"}

\* The summary notification a run posts when it ends in position p.
IsSummary(n, p) ==
    \/ /\ p = "done"
       /\ n.title = "Ingest complete"
       /\ n.body = ToString(Len(ResourceNames))
    \/ /\ p = "failed"
       /\ n.title = "Ingest error"
       /\ n.body \in {"fetch", "cache", "snapshot", "persist"}

C26_RunStep ==
    IF Running /\ pc' \in {"done", "failed"}
    THEN /\ Len(notifications') = Len(notifications) + 1
         /\ SubSeq(notifications', 1, Len(notifications)) = notifications
         /\ IsSummary(notifications'[Len(notifications')], pc')
    ELSE notifications' = notifications

C26_OnePerRun ==
    /\ Len(notifications) <= runs
    /\ Running => Len(notifications) < runs
    /\ pc \in {"done", "failed"} =>
          (notifications # <<>> /\ IsSummary(notifications[Len(notifications)], pc))
    /\ (pc \in {"done", "failed"} /\ runs = 1) => Len(notifications) = 1

-----------------------------------------------------------------------------
(* Properties of the audit log and of the cache                            *)

\* C27: once a run has recorded its snapshots, every resource of the bundle
\* has a snapshot whose endpoint and params are those of the request that
\* produced the resource and whose raw body is the serialised payload.
C27_SnapshotNamesRequest ==
    pc \in {"persist", "done"} =>
        \A i \in 1..Len(bundle) :
            \E n \in 1..Len(snapshots) :
                /\ snapshots[n].endpoint = FetchEndpoints[i]
                /\ snapshots[n].params = Dumps(FormatJson)
                /\ snapshots[n].raw = Dumps(bundle[i])

Objects(b) == \A i \in 1..Len(b) : IsDict(b[i])

C28_CacheStep ==
    \A k \in DOMAIN cache : k \in DOMAIN cache' /\ cache'[k] = cache[k]

C28_CachedStays ==
    \A i, j \in 1..Len(calls) :
        (i < j /\ ~calls[i].raised) =>
            /\ \A r \in 1..Len(FetchEndpoints) :
                  IsDict(calls[i].ret[r]) =>
                      /\ \A n \in 1..Len(calls[j].requests) : calls[j].requests[n] # r
                      /\ ~calls[j].raised => calls[j].ret[r] = calls[i].ret[r]
            /\ Objects(calls[i].ret) =>
                  /\ ~calls[j].raised
                  /\ calls[j].ret = calls[i].ret
                  /\ calls[j].requests = <<>>

\* C28: the pipeline never overwrites, refreshes or deletes a cache entry:
\* once a request key has a cached object every later fetch of the key
\* returns that object without a request, also after the platform's answer
\* has changed, and a second fetch_league_bundle over a fully cached bundle
\* returns the identical bundle with no request.
C28_NeverRefreshed == []C28_CachedStays /\ [][C28_CacheStep]_vars

\* The first call cached seven objects; the platform then renamed the league
\* and stopped answering for the standings: the second call returned the
\* first bundle without a request.
C28_Witness ==
    /\ Len(calls) = 2
    /\ Objects(calls[1].ret) /\ Len(calls[1].ret) = Len(FetchEndpoints)
    /\ Len(calls[1].requests) = Len(FetchEndpoints)
    /\ calls[1].ret[1] = League
    /\ calls[2].upstream[1] = LeagueRenamed /\ calls[2].upstream[6] = JRaise
    /\ calls[2].requests = <<>>
    /\ bundle = calls[1].ret

KeyOf(r) == cache_key_for(FetchEndpoints[r], FormatJson)
Last(xs) == xs[Len(xs)]

\* The call of this step raised at the request it issued last.
FetchRaised == calls' # calls /\ Last(calls').raised /\ Last(calls').requests # <<>>

C29_FailStep ==
    FetchRaised =>
        LET c == Last(calls')
            failing == Last(c.requests)
            before == {c.requests[n] : n \in 1..(Len(c.requests) - 1)}
        IN  /\ c.upstream[failing] = JRaise
            /\ KeyOf(failing) \notin DOMAIN cache'
            /\ \A k \in DOMAIN cache : k \in DOMAIN cache' /\ cache'[k] = cache[k]
            /\ DOMAIN cache' =
                  DOMAIN cache \cup {KeyOf(r) : r \in {q \in before : IsDict(c.upstream[q])}}

C29_AsksAgain ==
    \A i \in 1..(Len(calls) - 1) :
        (calls[i].raised /\ calls[i].requests # <<>>) =>
            \E n \in 1..Len(calls[i + 1].requests) :
                calls[i + 1].requests[n] = Last(calls[i].requests)

\* C29: when a get-or-fetch fails, because the client raises or the response
\* has a non-success status, the cache is left as it was: no entry is
\* created for the failing key and no entry is modified, so the next attempt
\* for the key goes to the platform again.
C29_FailureLeavesCache == []C29_AsksAgain /\ [][C29_FailStep]_vars

\* The standings failed in the first call, after two arrays were returned
\* uncached; the second call asked for the arrays and the standings again,
\* got them and cached the standings.
C29_Witness ==
    /\ Len(calls) = 2
    /\ calls[1].raised /\ Last(calls[1].requests) = 6
    /\ ~calls[2].raised /\ calls[2].requests = <<2, 5, 6, 7>>
    /\ calls[2].ret[6] = Standings
    /\ KeyOf(6) \in DOMAIN cache

-----------------------------------------------------------------------------
(* Properties of the matchups table                                        *)

\* C30: after every completed persist_bundle the opponent relation of the
\* matchups table is symmetric: a row (w, A, opponent B) has its row
\* (w, B, opponent A), whatever bundles were ingested.
C30_OpponentsSymmetric ==
    Completed =>
        \A k \in DOMAIN matchups :
            LET back == <<k[1], matchups[k].opponent_id>>
            IN  /\ back \in DOMAIN matchups
                /\ matchups[back].opponent_id = k[2]

====
